---------------------------- MODULE Spec2Model ----------------------------
(***************************************************************************)
(* Model of the resolution / catalog / inventory / aggregation layer of    *)
(* the renewable-portfolio dashboard (src/app.py, class                    *)
(* RenewablePortfolioDashboard).                                           *)
(*                                                                         *)
(* Conventions                                                             *)
(*   - Python's None / Optional[T] is a sequence of length 0 or 1:         *)
(*     None == <<>>, a value x is Some(x) == <<x>>.                        *)
(*   - A pathlib.Path below the portfolio root is the sequence of its      *)
(*     components, <<"Beta_LLC", "Generation", "historical">>; the root    *)
(*     itself is <<>>.                                                     *)
(*   - Python str is a TLA+ string (Len, SubSeq and \o act on strings).    *)
(*   - Several specifications share the variables; each one moves only     *)
(*     the variables of the component it is about:                         *)
(*       SpecResolve  the three find_*_file resolvers over a filesystem    *)
(*       SpecCatalog  get_all_sites / get_available_files, one call at a   *)
(*                    time, over a changing filesystem                     *)
(*       SpecRace     two request threads inside get_all_sites /           *)
(*                    get_available_files, statement by statement          *)
(*       SpecHist     calculate_historical_average on a loaded table       *)
(***************************************************************************)
EXTENDS Integers, Sequences, FiniteSets, TLC

VARIABLES
    fs,          \* the directory tree below portfolio_path: path -> entry
    call,        \* the last completed call: [op, args, result]
    sitesCache,  \* self._sites_cache
    filesCache,  \* self._files_cache: cache_key -> files_info
    thr,         \* per request thread: position and locals (SpecRace)
    touched,     \* history: the tree changed after the first cache access began (SpecRace)
    df,          \* the table read from a historical file (SpecHist)
    havg,        \* the outcome of calculate_historical_average (SpecHist)
    data,        \* the table a plot function reads with pd.read_parquet
    shown,       \* the component the last plot function returned
    csvfile,     \* suggestions.csv: its lines once it exists
    req,         \* the suggestion submissions being handled, per worker
    ui           \* the page: its stores, what it displays, the callbacks the renderer has yet to run

vars == <<fs, call, sitesCache, filesCache, thr, touched, df, havg, data, shown, csvfile, req, ui>>

---------------------------------------------------------------------------
(* Python values *)

None == <<>>
Some(x) == <<x>>

Range(s) == {s[i] : i \in 1..Len(s)}

Min(a, b) == IF a <= b THEN a ELSE b
Max(a, b) == IF a >= b THEN a ELSE b

---------------------------------------------------------------------------
(* str *)

\* the characters that occur in names, in increasing code-point order
CodePoints == " -.0123456789ABCDEFGHIJKLMNOPQRSTUVWXYZ_abcdefghijklmnopqrstuvwxyz"

\* rank of a one-character string in code-point order
Ord(c) == CHOOSE i \in 1..Len(CodePoints) : SubSeq(CodePoints, i, i) = c

\* str.startswith
startswith(s, prefix) ==
    /\ Len(s) >= Len(prefix)
    /\ SubSeq(s, 1, Len(prefix)) = prefix

\* the match of the glob pattern "*" \o suffix against a name
endswith(s, suffix) ==
    /\ Len(s) >= Len(suffix)
    /\ SubSeq(s, Len(s) - Len(suffix) + 1, Len(s)) = suffix

\* str.__lt__: lexicographic by code point
StrLess(a, b) ==
    LET n == Min(Len(a), Len(b))
        diff == {i \in 1..n : SubSeq(a, i, i) # SubSeq(b, i, i)}
    IN  IF diff = {}
        THEN Len(a) < Len(b)
        ELSE LET k == CHOOSE i \in diff : \A j \in diff : i <= j
             IN  Ord(SubSeq(a, k, k)) < Ord(SubSeq(b, k, k))

RECURSIVE InsertSorted(_, _)
InsertSorted(x, s) ==
    IF s = <<>> THEN <<x>>
    ELSE IF StrLess(x, Head(s)) THEN <<x>> \o s
    ELSE <<Head(s)>> \o InsertSorted(x, Tail(s))

\* sorted(list of str)
RECURSIVE sorted(_)
sorted(s) ==
    IF s = <<>> THEN <<>>
    ELSE InsertSorted(s[Len(s)], sorted(SubSeq(s, 1, Len(s) - 1)))

---------------------------------------------------------------------------
(* pathlib over the modelled tree *)

\* the fixed metric table of the resolvers (folder_map)
folder_map ==
    [generation |-> "Generation", price_da |-> "Price_da", price_rt |-> "Price_rt",
     revenue_da |-> "Revenue_da", revenue_rt |-> "Revenue_rt"]

\* folder_map.get(metric_type, metric_type)
folder_map_get(metric_type) ==
    IF metric_type \in DOMAIN folder_map THEN folder_map[metric_type] ELSE metric_type

\* Path / name
Join(p, name) == Append(p, name)

Parent(p) == SubSeq(p, 1, Len(p) - 1)
Name(p) == p[Len(p)]

\* Path.exists(): the entry is in the tree (a tree holds an entry only below a
\* directory, see FsCreate) and is not a symbolic link to nothing, which
\* exists() follows
exists(f, p) == p = <<>> \/ (p \in DOMAIN f /\ f[p].kind # "link")

\* Path.is_dir()
is_dir(f, p) == p = <<>> \/ (p \in DOMAIN f /\ f[p].kind = "dir")

\* the entries directly inside directory p (os.listdir)
listdir(f, p) == IF is_dir(f, p) THEN {q \in DOMAIN f : Len(q) = Len(p) + 1 /\ Parent(q) = p} ELSE {}

\* Path.glob('*.parquet')
glob_parquet(f, p) == {q \in listdir(f, p) : endswith(Name(q), ".parquet")}


---------------------------------------------------------------------------
(* The tree below portfolio_path.  The data files are produced elsewhere;  *)
(* the dashboard only reads them, so the tree changes under it one entry   *)
(* at a time.                                                              *)

\* at most this many entries in the tree
MaxEntries == 5

Dir == [kind |-> "dir"]
File(n) == [kind |-> "file", size |-> n]

\* a symbolic link whose target is missing
Link == [kind |-> "link"]

\* the record of a call is dropped when the tree changes: `call` always
\* describes a call made on the current tree
NoCall == [op |-> "none", args |-> <<>>, result |-> None, miss |-> FALSE]

\* mkdir / create a file: any entry of the universe U whose parent is a directory
FsCreate(U) ==
    /\ Cardinality(DOMAIN fs) < MaxEntries
    /\ \E c \in U :
        /\ c.path \notin DOMAIN fs
        /\ is_dir(fs, Parent(c.path))
        /\ fs' = [p \in DOMAIN fs \cup {c.path} |-> IF p = c.path THEN c.entry ELSE fs[p]]
    /\ call' = NoCall
    /\ UNCHANGED <<sitesCache, filesCache, thr, touched, df, havg, data, shown, csvfile, req, ui>>

\* unlink / rmdir: any entry with nothing inside
FsRemove ==
    /\ \E p \in DOMAIN fs :
        /\ listdir(fs, p) = {}
        /\ fs' = [q \in DOMAIN fs \ {p} |-> fs[q]]
    /\ call' = NoCall
    /\ UNCHANGED <<sitesCache, filesCache, thr, touched, df, havg, data, shown, csvfile, req, ui>>

---------------------------------------------------------------------------
(* The resolvers.  Each returns [value, raised]: the Optional[Path] it      *)
(* returns and whether an exception left the function.                     *)

Returned(v) == [value |-> v, raised |-> FALSE]

\* an exception left the function: value is str(e)
Raised(e) == [value |-> e, raised |-> TRUE]

\* the file name built from the folder name instead of the metric token
filename_by_folder(site_name, metric_type, temporal, category) ==
    site_name \o "_" \o folder_map_get(metric_type) \o "_" \o temporal \o "_" \o category \o ".parquet"

\* f"{site_name}_{metric_type}_{temporal}_{category}.parquet"
filename(site_name, metric_type, temporal, category) ==
    site_name \o "_" \o metric_type \o "_" \o temporal \o "_" \o category \o ".parquet"

find_distribution_file(f, site_name, metric_type, temporal) ==
    LET metric_folder == Join(Join(<<>>, site_name), folder_map_get(metric_type))
        dist_path == Join(Join(metric_folder, "forecast"), "distribution")
        file_path == Join(dist_path, filename(site_name, metric_type, temporal, "distribution"))
        \* the names printed on a miss; glob of a non-directory yields nothing
        listing == IF ~exists(f, file_path) THEN glob_parquet(f, dist_path) ELSE {}
    IN  IF ~exists(f, metric_folder) THEN Returned(None)
        ELSE IF ~exists(f, dist_path) THEN Returned(None)
        ELSE IF listing = listing /\ exists(f, file_path) THEN Returned(Some(file_path))
        ELSE Returned(None)

find_timeseries_file(f, site_name, metric_type, temporal) ==
    LET metric_folder == Join(Join(<<>>, site_name), folder_map_get(metric_type))
        ts_path == Join(Join(metric_folder, "forecast"), "timeseries")
        file_path == Join(ts_path, filename(site_name, metric_type, temporal, "timeseries"))
    IN  IF ~exists(f, metric_folder) THEN Returned(None)
        ELSE IF ~exists(f, ts_path) THEN Returned(None)
        ELSE IF exists(f, file_path) THEN Returned(Some(file_path))
        ELSE Returned(None)

\* the historical resolver without the final existence test
find_historical_file_unchecked(f, site_name, metric_type, temporal) ==
    LET metric_folder == Join(Join(<<>>, site_name), folder_map_get(metric_type))
        hist_path == Join(metric_folder, "historical")
        file_path == Join(hist_path, filename(site_name, metric_type, temporal, "historical"))
    IN  IF ~exists(f, hist_path) THEN Returned(None)
        ELSE Returned(Some(file_path))

find_historical_file(f, site_name, metric_type, temporal) ==
    LET metric_folder == Join(Join(<<>>, site_name), folder_map_get(metric_type))
        hist_path == Join(metric_folder, "historical")
        file_path == Join(hist_path, filename(site_name, metric_type, temporal, "historical"))
    IN  IF ~exists(f, hist_path) THEN Returned(None)
        ELSE IF exists(f, file_path) THEN Returned(Some(file_path))
        ELSE Returned(None)

\* the inputs the resolvers are called with
MetricTokens == {"generation", "price_da", "price_rt", "revenue_da", "revenue_rt"}
UnknownMetrics == {"wind"}
Temporals == {"hourly", "daily", "monthly"}
Categories == {"distribution", "timeseries", "historical"}
ResolveSites == {"Beta_LLC"}

\* Resolve(op): one call of a resolver on the current tree
FindDistribution ==
    /\ \E s \in ResolveSites, m \in MetricTokens \cup UnknownMetrics, t \in Temporals :
        call' = [op |-> "find_distribution_file", args |-> <<s, m, t>>,
                 result |-> find_distribution_file(fs, s, m, t), miss |-> FALSE]
    /\ UNCHANGED <<fs, sitesCache, filesCache, thr, touched, df, havg, data, shown, csvfile, req, ui>>

FindTimeseries ==
    /\ \E s \in ResolveSites, m \in MetricTokens \cup UnknownMetrics, t \in Temporals :
        call' = [op |-> "find_timeseries_file", args |-> <<s, m, t>>,
                 result |-> find_timeseries_file(fs, s, m, t), miss |-> FALSE]
    /\ UNCHANGED <<fs, sitesCache, filesCache, thr, touched, df, havg, data, shown, csvfile, req, ui>>

FindHistorical ==
    /\ \E s \in ResolveSites, m \in MetricTokens \cup UnknownMetrics, t \in Temporals :
        call' = [op |-> "find_historical_file", args |-> <<s, m, t>>,
                 result |-> find_historical_file(fs, s, m, t), miss |-> FALSE]
    /\ UNCHANGED <<fs, sitesCache, filesCache, thr, touched, df, havg, data, shown, csvfile, req, ui>>

\* The entries that may appear below a site in SpecResolve: every metric
\* folder of the table, the folder of an unknown metric, the three sub-paths
\* of each, and in each sub-path the files named after the tokens that map to
\* the folder.
ResolveFolders == {folder_map[m] : m \in MetricTokens} \cup UnknownMetrics

SubPaths == {<<"forecast", "distribution">>, <<"forecast", "timeseries">>, <<"historical">>}

\* the on-disk layout names a file <site>_<metric>_<temporal>_<category>.parquet
DataFileName(site, metric, temporal, category) ==
    site \o "_" \o metric \o "_" \o temporal \o "_" \o category \o ".parquet"

\* the metric tokens of the files that may lie in a folder: the token the
\* folder belongs to and, in Generation, also the folder's own name
FileTokens(folder) ==
    {m \in MetricTokens \cup UnknownMetrics : folder_map_get(m) = folder}
        \cup (IF folder = "Generation" THEN {folder} ELSE {})

FileSizes == {1536}

ResolveUniverse ==
    LET sites == {[path |-> <<s>>, entry |-> Dir] : s \in ResolveSites}
        folders == {[path |-> <<s, d>>, entry |-> Dir] : s \in ResolveSites, d \in ResolveFolders}
        forecast == {[path |-> <<s, d, "forecast">>, entry |-> Dir] : s \in ResolveSites, d \in ResolveFolders}
        subs == {[path |-> <<s, d>> \o sp, entry |-> Dir] :
                    s \in ResolveSites, d \in ResolveFolders, sp \in SubPaths}
        \* a regular file where the distribution directory is expected
        odd == {[path |-> <<s, d, "forecast", "distribution">>, entry |-> File(0)] :
                    s \in ResolveSites, d \in {"Generation"}}
        files == UNION {UNION {UNION {
                    {[path |-> <<s, d>> \o sp \o <<DataFileName(s, m, t, sp[Len(sp)])>>, entry |-> File(n)] :
                        m \in FileTokens(d), n \in FileSizes} :
                    t \in Temporals} : sp \in SubPaths} : s \in ResolveSites, d \in ResolveFolders}
    IN  sites \cup folders \cup forecast \cup subs \cup odd \cup files

\* calculate_historical_average returns None; log is what it printed
NoFrame(log) == [kind |-> "none", columns |-> <<>>, rows |-> <<>>, df_recent |-> <<>>, log |-> log]

\* no call on the current table yet
NoAverage == [called |-> FALSE, num_years |-> 0, out |-> NoFrame("")]

\* no file for a plot function to read
NoData == [metric |-> "", temporal |-> "", files |-> [dist |-> None, ts |-> None, hist |-> None, obs |-> None]]

\* no plot function called yet
NoComponent == [op |-> "none", out |-> [kind |-> "none"]]

\* no historical file loaded
NoTable == [metric |-> "", temporal |-> "", file |-> None]

InitCommon ==
    /\ fs = << >>
    /\ call = NoCall
    /\ sitesCache = None
    /\ filesCache = << >>
    /\ thr = << >>
    /\ touched = FALSE
    /\ df = NoTable
    /\ havg = NoAverage
    /\ data = NoData
    /\ shown = NoComponent
    /\ ui = << >>
    /\ req = << >>
    /\ csvfile = None

InitResolve == InitCommon

NextResolve ==
    \/ FsCreate(ResolveUniverse)
    \/ FsRemove
    \/ FindDistribution
    \/ FindTimeseries
    \/ FindHistorical

SpecResolve == InitResolve /\ [][NextResolve]_vars


---------------------------------------------------------------------------
(* Site catalog and file inventory, one call at a time *)

\* every order in which a directory listing may come back
Orderings(S) ==
    {o \in [1..Cardinality(S) -> S] : \A i, j \in 1..Cardinality(S) : o[i] = o[j] => i = j}

\* str.split(sep) for a one-character separator
RECURSIVE split(_, _)
split(s, sep) ==
    LET hits == {i \in 1..Len(s) : SubSeq(s, i, i) = sep}
    IN  IF hits = {} THEN <<s>>
        ELSE LET k == CHOOSE i \in hits : \A j \in hits : i <= j
             IN  <<SubSeq(s, 1, k - 1)>> \o split(SubSeq(s, k + 1, Len(s)), sep)

\* Path / 'a/b': pathlib splits the right operand into its components
JoinRel(p, rel) == p \o split(rel, "/")

\* str(path): the components joined below the portfolio directory
RECURSIVE JoinStr(_)
JoinStr(p) == IF p = <<>> THEN "" ELSE "/" \o Head(p) \o JoinStr(Tail(p))

portfolio_path == "Renewable Portfolio LLC_parquet"

str(p) == portfolio_path \o JoinStr(p)

\* f"{st_size / 1024:.1f} KB": one decimal, ties to even (st_size / 1024 is exact)
format_kb(st_size) ==
    LET q == (st_size * 10) \div 1024
        r == (st_size * 10) % 1024
        tenths == IF r > 512 \/ (r = 512 /\ q % 2 = 1) THEN q + 1 ELSE q
    IN  ToString(tenths \div 10) \o "." \o ToString(tenths % 10) \o " KB"

\* the five metric folders, in the order both functions test them
metric_folders == <<"Generation", "Price_da", "Price_rt", "Revenue_da", "Revenue_rt">>

\* the test of get_all_sites without the Revenue_rt folder
item_qualifies_four(f, item) ==
    /\ is_dir(f, item)
    /\ ~startswith(Name(item), "bootstrap_selections")
    /\ \E i \in 1..4 : exists(f, Join(item, metric_folders[i]))

\* the test get_all_sites applies to a directory entry
item_qualifies(f, item) ==
    /\ is_dir(f, item)
    /\ ~startswith(Name(item), "bootstrap_selections")
    /\ \/ exists(f, Join(item, "Generation"))
       \/ exists(f, Join(item, "Price_da"))
       \/ exists(f, Join(item, "Price_rt"))
       \/ exists(f, Join(item, "Revenue_da"))
       \/ exists(f, Join(item, "Revenue_rt"))

\* the loop of get_all_sites over the entries in the order iterdir yields them
scan_sites(f, items) ==
    LET kept == SelectSeq(items, LAMBDA item : item_qualifies(f, item))
    IN  [i \in 1..Len(kept) |-> Name(kept[i])]

\* the list stored without sorting it
compute_sites_unsorted(f, items) == scan_sites(f, items)

\* the value get_all_sites stores in the cache
compute_sites(f, items) == sorted(scan_sites(f, items))

\* get_all_sites that scans and stores on every call
GetAllSitesRefreshing ==
    /\ \E items \in Orderings(listdir(fs, <<>>)) :
            sitesCache' = Some(compute_sites(fs, items))
    /\ call' = [op |-> "get_all_sites", args |-> <<>>,
                result |-> Returned(sitesCache'[1]), miss |-> (sitesCache = None)]
    /\ UNCHANGED <<fs, filesCache, thr, touched, df, havg, data, shown, csvfile, req, ui>>

GetAllSites ==
    /\ IF sitesCache = None
       THEN \E items \in Orderings(listdir(fs, <<>>)) :
                sitesCache' = Some(compute_sites(fs, items))
       ELSE UNCHANGED sitesCache
    /\ call' = [op |-> "get_all_sites", args |-> <<>>,
                result |-> Returned(sitesCache'[1]), miss |-> (sitesCache = None)]
    /\ UNCHANGED <<fs, filesCache, thr, touched, df, havg, data, shown, csvfile, req, ui>>

\* the three sub-paths get_available_files checks in every metric folder
subfolders == <<"forecast/distribution", "forecast/timeseries", "historical">>

\* the dictionary with the whole sub-path as its type
file_info_subfolder(f, main_folder, subfolder, file) ==
    [metric |-> main_folder,
     type |-> subfolder,
     file |-> Name(file),
     path |-> str(file),
     size |-> format_kb(f[file].size)]

\* the dictionary appended for one file
file_info(f, main_folder, subfolder, file) ==
    [metric |-> main_folder,
     type |-> LET parts == split(subfolder, "/") IN parts[Len(parts)],
     file |-> Name(file),
     path |-> str(file),
     size |-> format_kb(f[file].size)]

\* the files the loops of get_available_files reach
inventory_files(f, site_name) ==
    UNION {glob_parquet(f, JoinRel(Join(<<site_name>>, metric_folders[i]), subfolders[j])) :
            i \in 1..Len(metric_folders), j \in 1..Len(subfolders)}

\* files_info: the folders and sub-paths in their fixed order (numbered 1..15,
\* here those from n to last), the files of one sub-path in the order `order`
\* (the order glob yields them)
RECURSIVE files_info_from(_, _, _, _, _)
files_info_from(f, site_name, order, n, last) ==
    IF n > last THEN <<>>
    ELSE LET main_folder == metric_folders[((n - 1) \div Len(subfolders)) + 1]
             subfolder == subfolders[((n - 1) % Len(subfolders)) + 1]
             main_path == Join(<<site_name>>, main_folder)
             sub_path == JoinRel(main_path, subfolder)
             found == IF exists(f, main_path) /\ exists(f, sub_path)
                      THEN SelectSeq(order, LAMBDA q : q \in glob_parquet(f, sub_path))
                      ELSE <<>>
         IN  [k \in 1..Len(found) |-> file_info(f, main_folder, subfolder, found[k])]
                \o files_info_from(f, site_name, order, n + 1, last)

files_info(f, site_name, order) ==
    files_info_from(f, site_name, order, 1, Len(metric_folders) * Len(subfolders))

\* the files whose size is asked for, in the order of files_info
RECURSIVE files_reached_from(_, _, _, _, _)
files_reached_from(f, site_name, order, n, last) ==
    IF n > last THEN <<>>
    ELSE LET main_folder == metric_folders[((n - 1) \div Len(subfolders)) + 1]
             subfolder == subfolders[((n - 1) % Len(subfolders)) + 1]
             main_path == Join(<<site_name>>, main_folder)
             sub_path == JoinRel(main_path, subfolder)
         IN  (IF exists(f, main_path) /\ exists(f, sub_path)
              THEN SelectSeq(order, LAMBDA q : q \in glob_parquet(f, sub_path))
              ELSE <<>>)
                \o files_reached_from(f, site_name, order, n + 1, last)

\* str(e) of the FileNotFoundError of file.stat()
FileNotFoundError(file) == "[Errno 2] No such file or directory: '" \o str(file) \o "'"

\* f"{site_name}_files"
cache_key(site_name) == site_name \o "_files"

\* dict with one more item
DictSet(d, k, v) == [x \in DOMAIN d \cup {k} |-> IF x = k THEN v ELSE d[x]]

\* get_available_files(site_name) on tree f with _files_cache cache, glob
\* yielding the files in the order `order`: [cache, result].  stat() of a
\* link to nothing raises before anything is stored.
get_available_files(f, cache, site_name, order) ==
    IF cache_key(site_name) \in DOMAIN cache
    THEN [cache |-> cache, result |-> Returned(cache[cache_key(site_name)])]
    ELSE LET reached == files_reached_from(f, site_name, order, 1, Len(metric_folders) * Len(subfolders))
             broken == SelectSeq(reached, LAMBDA q : f[q].kind = "link")
         IN  IF broken # <<>>
             THEN [cache |-> cache, result |-> Raised(FileNotFoundError(broken[1]))]
             ELSE LET info == files_info(f, site_name, order)
                  IN  [cache |-> DictSet(cache, cache_key(site_name), info), result |-> Returned(info)]

GetAvailableFiles(site_name) ==
    /\ \E order \in Orderings(inventory_files(fs, site_name)) :
        LET r == get_available_files(fs, filesCache, site_name, order)
        IN  /\ filesCache' = r.cache
            /\ call' = [op |-> "get_available_files", args |-> <<site_name>>,
                        result |-> r.result,
                        miss |-> (cache_key(site_name) \notin DOMAIN filesCache)]
    /\ UNCHANGED <<fs, sitesCache, thr, touched, df, havg, data, shown, csvfile, req, ui>>

\* SpecCatalog: get_all_sites over every tree of root entries and folders
CatalogUniverse ==
    {[path |-> <<s>>, entry |-> Dir] : s \in {"Beta_LLC", "alpha", "bootstrap_selections_1"}}
        \cup {[path |-> <<"notes.txt">>, entry |-> File(0)]}
        \cup {[path |-> <<"Beta_LLC", metric_folders[i]>>, entry |-> Dir] : i \in 1..Len(metric_folders)}
        \cup {[path |-> <<"alpha", d>>, entry |-> Dir] : d \in {"Generation", "Other"}}
        \cup {[path |-> <<"alpha", "Revenue_rt">>, entry |-> File(0)]}
        \cup {[path |-> <<"bootstrap_selections_1", "Generation">>, entry |-> Dir]}

InitCatalog == InitCommon

NextCatalog ==
    \/ FsCreate(CatalogUniverse)
    \/ FsRemove
    \/ GetAllSites

SpecCatalog == InitCatalog /\ [][NextCatalog]_vars

\* SpecInventory: both cached listings over two sites with files
InventorySites == {"Beta_LLC", "alpha"}

InventoryUniverse ==
    {[path |-> p, entry |-> Dir] :
        p \in {<<"Beta_LLC">>, <<"Beta_LLC", "Generation">>, <<"Beta_LLC", "Generation", "historical">>,
               <<"alpha">>, <<"alpha", "Price_da">>, <<"alpha", "Price_da", "forecast">>,
               <<"alpha", "Price_da", "forecast", "timeseries">>}}
        \cup {[path |-> <<"Beta_LLC", "Generation", "historical", n>>, entry |-> File(1536)] :
                n \in {DataFileName("Beta_LLC", "generation", "hourly", "historical"), "extra.parquet"}}
        \cup {[path |-> <<"alpha", "Price_da", "forecast", "timeseries",
                          DataFileName("alpha", "price_da", "monthly", "timeseries")>>, entry |-> File(2048)]}
        \* files the inventory passes over: not a parquet file, not in a sub-path
        \cup {[path |-> <<"Beta_LLC", "Generation", "historical", "notes.csv">>, entry |-> File(100)],
              [path |-> <<"Beta_LLC", "Generation", "stray.parquet">>, entry |-> File(100)]}

InitInventory == InitCommon

NextInventory ==
    \/ FsCreate(InventoryUniverse)
    \/ FsRemove
    \/ GetAllSites
    \/ \E s \in InventorySites : GetAvailableFiles(s)

SpecInventory == InitInventory /\ [][NextInventory]_vars

---------------------------------------------------------------------------
(* Two request threads in the cached listings, statement by statement.     *)
(* The development server (app.run) serves each request on its own thread, *)
(* all threads sharing the one dashboard object.                           *)

Threads == {"t1", "t2"}

RaceSites == {"Beta_LLC"}

Idle == [pc |-> "idle", site |-> "", items |-> <<>>, acc |-> <<>>, idx |-> 0, ret |-> None]

\* some call has begun to read a cache
AccessBegun ==
    \/ sitesCache # None
    \/ filesCache # << >>
    \/ \E t \in DOMAIN thr : thr[t].pc # "idle" \/ thr[t].ret # None

Goto(t, rec) == thr' = [thr EXCEPT ![t] = rec]

\* line 87: if self._sites_cache is None
GasCheck(t) ==
    /\ thr[t].pc = "idle"
    /\ Goto(t, [Idle EXCEPT !.pc = IF sitesCache = None THEN "gas_89" ELSE "gas_97"])
    /\ UNCHANGED <<fs, call, sitesCache, filesCache, touched, df, havg, data, shown, csvfile, req, ui>>

\* lines 88-89: sites = []; the directory listing, in the order it comes back
GasList(t) ==
    /\ thr[t].pc = "gas_89"
    /\ \E items \in Orderings(listdir(fs, <<>>)) :
            Goto(t, [thr[t] EXCEPT !.pc = "gas_90", !.items = items, !.acc = <<>>])
    /\ UNCHANGED <<fs, call, sitesCache, filesCache, touched, df, havg, data, shown, csvfile, req, ui>>

\* the loop body with the list under construction already bound to the cache
GasItemInPlace(t) ==
    /\ thr[t].pc = "gas_90"
    /\ thr[t].items # <<>>
    /\ LET item == Head(thr[t].items)
           acc == IF item_qualifies(fs, item) THEN Append(thr[t].acc, Name(item)) ELSE thr[t].acc
       IN  /\ Goto(t, [thr[t] EXCEPT !.items = Tail(thr[t].items), !.acc = acc])
           /\ sitesCache' = Some(acc)
    /\ UNCHANGED <<fs, call, filesCache, touched, df, havg, data, shown, csvfile, req, ui>>

\* lines 89-94: one iteration of the loop
GasItem(t) ==
    /\ thr[t].pc = "gas_90"
    /\ thr[t].items # <<>>
    /\ LET item == Head(thr[t].items)
       IN  Goto(t, [thr[t] EXCEPT
                    !.items = Tail(thr[t].items),
                    !.acc = IF item_qualifies(fs, item) THEN Append(@, Name(item)) ELSE @])
    /\ UNCHANGED <<fs, call, sitesCache, filesCache, touched, df, havg, data, shown, csvfile, req, ui>>

\* line 95: self._sites_cache = sorted(sites)
GasStore(t) ==
    /\ thr[t].pc = "gas_90"
    /\ thr[t].items = <<>>
    /\ sitesCache' = Some(sorted(thr[t].acc))
    /\ Goto(t, [thr[t] EXCEPT !.pc = "gas_97"])
    /\ UNCHANGED <<fs, call, filesCache, touched, df, havg, data, shown, csvfile, req, ui>>

\* line 97: return self._sites_cache
GasReturn(t) ==
    /\ thr[t].pc = "gas_97"
    /\ Goto(t, [Idle EXCEPT !.ret = Some([op |-> "get_all_sites", site |-> "", value |-> sitesCache[1]])])
    /\ UNCHANGED <<fs, call, sitesCache, filesCache, touched, df, havg, data, shown, csvfile, req, ui>>

\* lines 107-110: if cache_key not in self._files_cache
GafCheck(t, site_name) ==
    /\ thr[t].pc = "idle"
    /\ Goto(t, [Idle EXCEPT
                !.pc = IF cache_key(site_name) \notin DOMAIN filesCache THEN "gaf_121" ELSE "gaf_138",
                !.site = site_name, !.idx = 1])
    /\ UNCHANGED <<fs, call, sitesCache, filesCache, touched, df, havg, data, shown, csvfile, req, ui>>

\* lines 121-135: one iteration of the loop over the metric folders
GafFolder(t) ==
    /\ thr[t].pc = "gaf_121"
    /\ thr[t].idx <= Len(metric_folders)
    /\ LET first == (thr[t].idx - 1) * Len(subfolders) + 1
           last == thr[t].idx * Len(subfolders)
       IN  \E order \in Orderings(inventory_files(fs, thr[t].site)) :
                Goto(t, [thr[t] EXCEPT
                         !.idx = @ + 1,
                         !.acc = @ \o files_info_from(fs, thr[t].site, order, first, last)])
    /\ UNCHANGED <<fs, call, sitesCache, filesCache, touched, df, havg, data, shown, csvfile, req, ui>>

\* line 137: self._files_cache[cache_key] = files_info
GafStore(t) ==
    /\ thr[t].pc = "gaf_121"
    /\ thr[t].idx > Len(metric_folders)
    /\ filesCache' = DictSet(filesCache, cache_key(thr[t].site), thr[t].acc)
    /\ Goto(t, [thr[t] EXCEPT !.pc = "gaf_138"])
    /\ UNCHANGED <<fs, call, sitesCache, touched, df, havg, data, shown, csvfile, req, ui>>

\* line 138: return self._files_cache[cache_key]
GafReturn(t) ==
    /\ thr[t].pc = "gaf_138"
    /\ Goto(t, [Idle EXCEPT !.ret = Some([op |-> "get_available_files", site |-> thr[t].site,
                                          value |-> filesCache[cache_key(thr[t].site)]])])
    /\ UNCHANGED <<fs, call, sitesCache, filesCache, touched, df, havg, data, shown, csvfile, req, ui>>

RaceUniverse ==
    {[path |-> p, entry |-> Dir] :
        p \in {<<"Beta_LLC">>, <<"Beta_LLC", "Generation">>, <<"Beta_LLC", "Generation", "historical">>,
               <<"alpha">>, <<"alpha", "Price_da">>}}
        \cup {[path |-> <<"Beta_LLC", "Generation", "historical",
                          DataFileName("Beta_LLC", "generation", "hourly", "historical")>>,
               entry |-> File(1536)]}

\* the tree changes while requests are served
RaceFsCreate ==
    /\ Cardinality(DOMAIN fs) < MaxEntries
    /\ \E c \in RaceUniverse :
        /\ c.path \notin DOMAIN fs
        /\ is_dir(fs, Parent(c.path))
        /\ fs' = [p \in DOMAIN fs \cup {c.path} |-> IF p = c.path THEN c.entry ELSE fs[p]]
    /\ touched' = (touched \/ AccessBegun)
    /\ UNCHANGED <<call, sitesCache, filesCache, thr, df, havg, data, shown, csvfile, req, ui>>

RaceFsRemove ==
    /\ \E p \in DOMAIN fs :
        /\ listdir(fs, p) = {}
        /\ fs' = [q \in DOMAIN fs \ {p} |-> fs[q]]
    /\ touched' = (touched \/ AccessBegun)
    /\ UNCHANGED <<call, sitesCache, filesCache, thr, df, havg, data, shown, csvfile, req, ui>>

InitRace ==
    /\ fs = << >>
    /\ call = NoCall
    /\ sitesCache = None
    /\ filesCache = << >>
    /\ thr = [t \in Threads |-> Idle]
    /\ touched = FALSE
    /\ df = NoTable
    /\ havg = NoAverage
    /\ data = NoData
    /\ shown = NoComponent
    /\ ui = << >>
    /\ req = << >>
    /\ csvfile = None

NextRace ==
    \/ RaceFsCreate
    \/ RaceFsRemove
    \/ \E t \in Threads :
        \/ GasCheck(t)
        \/ GasList(t)
        \/ GasItem(t)
        \/ GasStore(t)
        \/ GasReturn(t)
        \/ \E s \in RaceSites : GafCheck(t, s)
        \/ GafFolder(t)
        \/ GafStore(t)
        \/ GafReturn(t)

SpecRace == InitRace /\ [][NextRace]_vars

---------------------------------------------------------------------------
(* calculate_historical_average on the table of a historical file.         *)
(*                                                                         *)
(* A table is [columns, rows]; a row is a record of the calendar columns   *)
(* and `value`, the entry in the file's value column.  groupby and mean do *)
(* not depend on the order of the rows, so a table is kept with its rows   *)
(* in one fixed order (RowRank).  Values are whole numbers, none missing;  *)
(* a mean is the exact fraction <<numerator, denominator>> in lowest       *)
(* terms (the code's float64 rounding is not modelled).                    *)

\* at most this many rows in a table
MaxRows == 3

HistYears == {2020, 2021}
\* two cells of one month that differ in day and hour, and a cell of another
\* month with the day and hour of the first
CalendarCells ==
    {[month |-> 1, day |-> 1, hour |-> 0], [month |-> 1, day |-> 2, hour |-> 1],
     [month |-> 2, day |-> 1, hour |-> 0]}
HistValues == {10, 20}

RowDomain ==
    {[year |-> y, month |-> c.month, day |-> c.day, hour |-> c.hour, value |-> v] :
        y \in HistYears, c \in CalendarCells, v \in HistValues}

RowRank(r) == ((((r.year - 2020) * 3 + r.month) * 3 + r.day) * 2 + r.hour) * 100 + r.value

\* the num_years arguments: none, fewer than, as many as and more than the
\* years a table can hold, the last being the default of the parameter
NumYearsArgs == {0, 1, 2, 10}

\* the name a historical file gives its value column
FileValueColumn(metric, temporal) ==
    CASE metric = "generation" /\ temporal = "hourly" -> "generation_mw"
      [] metric = "generation" /\ temporal = "daily" -> "daily_generation_mwh"
      [] metric = "generation" /\ temporal = "monthly" -> "monthly_generation_mwh"
      [] metric \in {"price_da", "price_rt"} /\ temporal \in {"daily", "monthly"} -> "weighted_price"
      [] OTHER -> metric

FileColumns(metric, temporal) == {"year", "month", "day", "hour", FileValueColumn(metric, temporal)}

\* 'price' in metric_type
contains(s, sub) ==
    \E i \in 1..(Len(s) - Len(sub) + 1) : SubSeq(s, i, i + Len(sub) - 1) = sub

\* lines 230-238: Some(column) or None when no branch binds value_col
value_col(metric_type, temporal) ==
    IF metric_type = "generation"
    THEN IF temporal = "hourly" THEN Some("generation_mw") ELSE Some(temporal \o "_generation_mwh")
    ELSE IF metric_type \in {"price_da", "price_rt"}
    THEN IF temporal \in {"daily", "monthly"} THEN Some("weighted_price") ELSE Some(metric_type)
    ELSE IF metric_type \in {"revenue_da", "revenue_rt"} THEN Some(metric_type)
    ELSE None

\* sorted(set of int): the least first
RECURSIVE SortedInts(_)
SortedInts(S) ==
    IF S = {} THEN <<>>
    ELSE LET least == CHOOSE x \in S : \A y \in S : x <= y
         IN  <<least>> \o SortedInts(S \ {least})

\* seq[start:] as Python evaluates it
SliceFrom(seq, start) ==
    LET lo == IF start < 0 THEN Max(Len(seq) + start, 0) ELSE Min(start, Len(seq))
    IN  SubSeq(seq, lo + 1, Len(seq))

\* insufficient history treated as no history
last_years_or_nothing(years, num_years) ==
    IF Len(years) < num_years THEN <<>> ELSE SliceFrom(years, 0 - num_years)

\* lines 247-250
last_years(years, num_years) ==
    IF Len(years) < num_years THEN years ELSE SliceFrom(years, 0 - num_years)

RECURSIVE Gcd(_, _)
Gcd(a, b) == IF b = 0 THEN a ELSE Gcd(b, a % b)

RECURSIVE SumValues(_)
SumValues(rows) == IF rows = <<>> THEN 0 ELSE Head(rows).value + SumValues(Tail(rows))

\* the total in place of the mean
total(rows) == <<SumValues(rows), 1>>

\* Series.mean() of the value column of a non-empty group
mean(rows) ==
    LET g == Gcd(SumValues(rows), Len(rows))
    IN  <<SumValues(rows) \div g, Len(rows) \div g>>

\* every hourly table grouped by hour alone
group_columns_diurnal(metric_type, temporal) ==
    IF temporal = "monthly" THEN Some(<<"month">>)
    ELSE IF temporal = "daily" THEN Some(<<"month", "day">>)
    ELSE IF temporal = "hourly" THEN Some(<<"hour">>)
    ELSE None

\* lines 255-275: the groupby columns, None when no branch is taken
group_columns(metric_type, temporal) ==
    IF temporal = "monthly" THEN Some(<<"month">>)
    ELSE IF temporal = "daily" THEN Some(<<"month", "day">>)
    ELSE IF temporal = "hourly"
    THEN IF metric_type = "generation" \/ contains(metric_type, "price")
         THEN Some(<<"hour">>)
         ELSE Some(<<"month", "day", "hour">>)
    ELSE None

KeyOf(r, by) == [i \in 1..Len(by) |-> r[by[i]]]

KeyLess(a, b) ==
    \E k \in 1..Len(a) : a[k] < b[k] /\ \A j \in 1..(k - 1) : a[j] = b[j]

\* df.groupby(by)[value_col].mean().reset_index() with the columns renamed:
\* one row per key present, in ascending key order
groupby_mean(rows, by) ==
    LET keys == {KeyOf(rows[i], by) : i \in 1..Len(rows)}
        order == CHOOSE q \in [1..Cardinality(keys) -> keys] :
                    /\ {q[i] : i \in 1..Cardinality(keys)} = keys
                    /\ \A i, j \in 1..Cardinality(keys) : i < j => KeyLess(q[i], q[j])
        columns == by \o <<"historical_avg">>
    IN  [n \in 1..Cardinality(keys) |->
            [c \in Range(columns) |->
                IF c = "historical_avg"
                THEN mean(SelectSeq(rows, LAMBDA r : KeyOf(r, by) = order[n]))
                ELSE order[n][CHOOSE i \in 1..Len(by) : by[i] = c]]]

\* lines 219-280; file is what find_historical_file and read_parquet give:
\* None or Some(table)
calculate_historical_average(file, metric_type, temporal, num_years) ==
    IF file = None THEN NoFrame("")
    ELSE LET table == file[1]
             col == value_col(metric_type, temporal)
         IN  IF col = None
             THEN NoFrame("Error calculating historical average: local variable 'value_col' referenced before assignment")
             ELSE IF col[1] \notin table.columns
             THEN NoFrame("Warning: Column " \o col[1] \o " not found in historical data")
             ELSE IF "year" \notin table.columns
             THEN NoFrame("Error calculating historical average: 'year'")
             ELSE LET years == SortedInts({table.rows[i].year : i \in 1..Len(table.rows)})
                      kept == last_years(years, num_years)
                      df_recent == SelectSeq(table.rows, LAMBDA r : r.year \in Range(kept))
                      by == group_columns(metric_type, temporal)
                  IN  IF by = None THEN NoFrame("")
                      ELSE IF \E c \in Range(by[1]) : c \notin table.columns
                      THEN NoFrame("Error calculating historical average: "
                                   \o (CHOOSE c \in Range(by[1]) : c \notin table.columns))
                      ELSE [kind |-> "frame",
                            columns |-> by[1] \o <<"historical_avg">>,
                            rows |-> groupby_mean(df_recent, by[1]),
                            df_recent |-> df_recent,
                            log |-> ""]

\* the historical file of (site, metric, temporal) gains a row
HistAddRow ==
    /\ df.file # None
    /\ Len(df.file[1].rows) < MaxRows
    /\ \E r \in RowDomain :
        /\ \A i \in 1..Len(df.file[1].rows) : RowRank(df.file[1].rows[i]) <= RowRank(r)
        /\ df' = [df EXCEPT !.file = Some([columns |-> df.file[1].columns,
                                            rows |-> Append(df.file[1].rows, r)])]
    /\ havg' = NoAverage
    /\ UNCHANGED <<fs, call, sitesCache, filesCache, thr, touched, data, shown, csvfile, req, ui>>

\* calculate_historical_average(site, metric, temporal, num_years)
HistAverage ==
    /\ \E n \in NumYearsArgs :
        havg' = [called |-> TRUE, num_years |-> n,
                 out |-> calculate_historical_average(df.file, df.metric, df.temporal, n)]
    /\ UNCHANGED <<fs, call, sitesCache, filesCache, thr, touched, df, data, shown, csvfile, req, ui>>

InitHist ==
    /\ fs = << >>
    /\ call = NoCall
    /\ sitesCache = None
    /\ filesCache = << >>
    /\ thr = << >>
    /\ touched = FALSE
    /\ \E m \in MetricTokens, t \in Temporals :
        \E file \in {None, Some([columns |-> FileColumns(m, t), rows |-> <<>>])} :
            df = [metric |-> m, temporal |-> t, file |-> file]
    /\ havg = NoAverage
    /\ data = NoData
    /\ shown = NoComponent
    /\ ui = << >>
    /\ req = << >>
    /\ csvfile = None

NextHist ==
    \/ HistAddRow
    \/ HistAverage

SpecHist == InitHist /\ [][NextHist]_vars

---------------------------------------------------------------------------
(* The plot functions: what each returns for the tables it reads.          *)
(* A file argument is what the resolver and pd.read_parquet give: None or  *)
(* Some(table), a table being [columns, rows].  A component is an alert    *)
(* (color, text) or a graph (its traces, each with its number of points).  *)

\* dbc.Alert(text, color=color)
Alert(text, color) == [kind |-> "alert", color |-> color, text |-> text]

\* one go.Scatter trace
Trace(name, n) == [name |-> name, n |-> n]

\* dcc.Graph(figure=fig), alone or inside the html.Div with the view button
Graph(traces) == [kind |-> "graph", traces |-> traces]

\* str(KeyError(col)), raised by df[col]
KeyError(col) == "'" \o col \o "'"

\* repr of a list of column names
RECURSIVE ListItems(_)
ListItems(cols) ==
    IF cols = <<>> THEN ""
    ELSE "'" \o Head(cols) \o "'" \o (IF Len(cols) > 1 THEN ", " ELSE "") \o ListItems(Tail(cols))

\* str of the KeyError raised by df[[...]] when some of the columns are absent
NotInIndex(asked, columns) ==
    LET missing == SelectSeq(asked, LAMBDA c : c \notin columns)
    IN  IF Len(missing) = Len(asked)
        THEN "\"None of [Index([" \o ListItems(asked) \o "], dtype='object')] are in the [columns]\""
        ELSE "\"[" \o ListItems(missing) \o "] not in index\""

\* the first column of a sequence of lookups df[c] that is absent
FirstMissing(lookups, columns) ==
    LET missing == SelectSeq(lookups, LAMBDA c : c \notin columns)
    IN  IF missing = <<>> THEN None ELSE Some(missing[1])

\* raised when a name no branch assigned is read
UnboundLocalError(name) == "local variable '" \o name \o "' referenced before assignment"

\* lines 1265-1356
create_daily_forecast(dist_file, metric) ==
    IF dist_file = None THEN Alert("No daily forecast data available", "warning")
    ELSE LET frame == dist_file[1]
             n == Len(frame.rows)
             lookups == <<"p10", "p90", "mean">> \o (IF n > 0 THEN <<"month", "day">> ELSE <<>>)
             missing == FirstMissing(lookups, frame.columns)
         IN  IF missing # None
             THEN Alert("Error in daily forecast: " \o KeyError(missing[1]), "danger")
             ELSE Graph(<<Trace("P10-P90 Band", 2 * n), Trace("Mean", n)>>)

\* lines 1381-1386 (and 1477-1482)
recent_years(years) == IF Len(years) >= 10 THEN SliceFrom(years, 0 - 10) ELSE years

\* the value column of the historical views, lines 1369-1376 and 1465-1472
view_value_col(metric, temporal) ==
    IF metric = "generation" THEN Some(temporal \o "_generation_mwh")
    ELSE IF metric \in {"price_da", "price_rt"} THEN Some("weighted_price")
    ELSE IF metric \in {"revenue_da", "revenue_rt"} THEN Some(metric)
    ELSE None

\* the body shared by create_daily_historical and create_monthly_historical
create_historical(hist_file, metric, temporal, dated_by) ==
    IF hist_file = None
    THEN Alert("No " \o temporal \o " historical data available", "warning")
    ELSE LET frame == hist_file[1]
             col == view_value_col(metric, temporal)
         IN  IF col = None THEN Alert("Unsupported metric for historical view", "warning")
             ELSE IF col[1] \notin frame.columns
             THEN Alert("Column " \o col[1] \o " not found in historical data", "warning")
             ELSE IF "year" \notin frame.columns
             THEN Alert("Error in " \o temporal \o " historical: " \o KeyError("year"), "danger")
             ELSE IF \E c \in Range(dated_by) : c \notin frame.columns
             THEN Alert("Error in " \o temporal \o " historical: " \o NotInIndex(dated_by, frame.columns),
                        "danger")
             ELSE LET years == SortedInts({frame.rows[i].year : i \in 1..Len(frame.rows)})
                      df_recent == SelectSeq(frame.rows, LAMBDA r : r.year \in Range(recent_years(years)))
                  IN  Graph(<<Trace("Historical Data", Len(df_recent))>>)

\* lines 1358-1452
create_daily_historical(hist_file, metric) ==
    create_historical(hist_file, metric, "daily", <<"year", "month", "day">>)

\* lines 1454-1549
create_monthly_historical(hist_file, metric) ==
    create_historical(hist_file, metric, "monthly", <<"year", "month">>)

\* lines 1551-1687; ts_file is None or Some(the monthly timeseries table),
\* a table of value columns [series: a sequence of [name, values]]
create_monthly_forecast(site_name, dist_file, ts_file, hist_file, metric) ==
    IF dist_file = None
    THEN Alert("No monthly forecast data available for " \o metric \o " at " \o site_name, "warning")
    ELSE LET df_dist == dist_file[1]
             hist_avg == calculate_historical_average(hist_file, metric, "monthly", 10)
             x == IF "month" \in df_dist.columns THEN Len(df_dist.rows) ELSE 12
             path_cols == IF ts_file = None THEN <<>>
                          ELSE SelectSeq(ts_file[1].series, LAMBDA c : startswith(c.name, "path_"))
             paths == [i \in 1..Min(Len(path_cols), 30) |-> Trace("", Len(path_cols[i].values))]
             missing == FirstMissing(<<"p10", "p90", "mean">>, df_dist.columns)
             overlay == IF hist_avg.kind = "frame" /\ "month" \in df_dist.columns
                        THEN <<Trace("10-Year Historical Avg", x)>> ELSE <<>>
         IN  IF missing # None
             THEN Alert("Error in monthly forecast: " \o KeyError(missing[1]), "danger")
             ELSE Graph(paths \o <<Trace("P10-P90 Band", 2 * x), Trace("Forecast Mean", x)>> \o overlay)

\* str of the KeyError raised by groupby(...).agg({...}) for absent columns
ColumnsDoNotExist(asked, columns) ==
    "\"Column(s) [" \o ListItems(SelectSeq(asked, LAMBDA c : c \notin columns)) \o "] do not exist\""

\* lines 1689-1770
create_diurnal_pattern(dist_file, hist_file, metric) ==
    IF dist_file = None THEN Alert("No hourly data available", "warning")
    ELSE LET frame == dist_file[1]
             hist_avg == calculate_historical_average(hist_file, metric, "hourly", 10)
             hours == Cardinality({frame.rows[i].hour : i \in 1..Len(frame.rows)})
             overlay == IF hist_avg.kind = "frame"
                        THEN <<Trace("5-Year Historical Avg", Len(hist_avg.rows))>> ELSE <<>>
         IN  IF "hour" \notin frame.columns
             THEN Alert("Error in diurnal pattern: " \o KeyError("hour"), "danger")
             ELSE IF \E c \in {"mean", "p5", "p95"} : c \notin frame.columns
             THEN Alert("Error in diurnal pattern: "
                        \o ColumnsDoNotExist(<<"mean", "p5", "p95">>, frame.columns), "danger")
             ELSE IF metric \notin {"generation", "price_da", "price_rt"}
             THEN Alert("Error in diurnal pattern: " \o UnboundLocalError("title"), "danger")
             ELSE Graph(<<Trace("P5-P95 Band", 2 * hours), Trace("Forecast Mean", hours)>> \o overlay)

(* The hourly observations read by the two scatter plots are listed in     *)
(* blocks: count rows of one year with the same generation_mw (in tenths   *)
(* of a MW) and the same shortwave_radiation.                              *)

RECURSIVE CountRows(_)
CountRows(rows) == IF rows = <<>> THEN 0 ELSE Head(rows).count + CountRows(Tail(rows))

\* a year with at least this many rows is complete (lines 1971, 2057)
HoursPerYear == 8760

\* fewer filtered rows than this is insufficient data (lines 1984, 2070)
MinPoints == 100

\* more filtered rows than this are sampled down to it (lines 1988-1989)
MaxPoints == 10000

\* an unseeded generator
RandomStateUnseeded(random_state, entropy) == entropy

\* the generator sample() draws from: seeded by random_state when one is
\* given, by the entropy of the moment otherwise
RandomState(random_state, entropy) == IF random_state = None THEN entropy ELSE random_state[1]

\* the first n rows of a list of blocks
RECURSIVE TakeRows(_, _)
TakeRows(rows, n) ==
    IF rows = <<>> \/ n = 0 THEN <<>>
    ELSE LET k == Min(Head(rows).count, n)
         IN  <<[Head(rows) EXCEPT !.count = k]>> \o TakeRows(Tail(rows), n - k)

\* no sampling
sample_all(rows, n, random_state, entropy) == rows

\* DataFrame.sample(n=n, random_state=random_state): n of the rows, which
\* ones being fixed by the generator's seed; the rows a seed picks are
\* modelled as the first n from a position the seed fixes
sample(rows, n, random_state, entropy) ==
    LET seed == RandomState(random_state, entropy)
        from == (seed % Len(rows)) + 1
    IN  TakeRows(SubSeq(rows, from, Len(rows)) \o SubSeq(rows, 1, from - 1), n)

\* a year is complete from one row on
complete_years_nonempty(frame) == {frame.rows[i].year : i \in 1..Len(frame.rows)}

\* lines 1970-1971
complete_years(frame) ==
    {y \in {frame.rows[i].year : i \in 1..Len(frame.rows)} :
        CountRows(SelectSeq(frame.rows, LAMBDA r : r.year = y)) >= HoursPerYear}

\* the body shared by the two scatter plots: the last_n most recent
\* complete years, the points colored by color_col
ghi_vs_generation(hist_file, last_n, color_col, label, entropy) ==
    IF hist_file = None THEN Alert("No historical data available", "warning")
    ELSE LET frame == hist_file[1]
             parts == <<"year", "month", "day", "hour">>
             years_to_use == SliceFrom(SortedInts(complete_years(frame)), 0 - last_n)
             df_years == SelectSeq(frame.rows, LAMBDA r : r.year \in Range(years_to_use))
             df_filtered == SelectSeq(df_years,
                                LAMBDA r : r.generation_mw > 1 /\ r.shortwave_radiation > 0)
             plotted == IF CountRows(df_filtered) > MaxPoints
                        THEN sample(df_filtered, MaxPoints, Some(42), entropy)
                        ELSE df_filtered
             Error(text) == Alert("Error in GHI vs generation (" \o label \o "): " \o text, "danger")
         IN  IF "datetime" \notin frame.columns /\ \E c \in Range(parts) : c \notin frame.columns
             THEN Error(NotInIndex(parts, frame.columns))
             ELSE IF "year" \notin frame.columns THEN Error(KeyError("year"))
             ELSE IF complete_years(frame) = {}
             THEN Alert("No complete years of data available", "warning")
             ELSE IF "generation_mw" \notin frame.columns THEN Error(KeyError("generation_mw"))
             ELSE IF "shortwave_radiation" \notin frame.columns
             THEN Error(KeyError("shortwave_radiation"))
             ELSE IF CountRows(df_filtered) < MinPoints
             THEN Alert("Insufficient data for analysis", "warning")
             ELSE IF color_col \notin frame.columns THEN Error(KeyError(color_col))
             ELSE [kind |-> "graph",
                   traces |-> <<Trace("", CountRows(plotted))>>,
                   years |-> years_to_use,
                   filtered |-> df_filtered,
                   rows |-> plotted]

\* lines 1956-2040
create_ghi_vs_generation_hour(hist_file, entropy) ==
    ghi_vs_generation(hist_file, 10, "hour", "hour", entropy)

\* lines 2042-2123
create_ghi_vs_generation_temp(hist_file, entropy) ==
    ghi_vs_generation(hist_file, 5, "temperature_2m", "temp", entropy)

(* SpecSchema: every plot function on tables that lack up to MaxMissing of *)
(* the columns of their schema, with and without rows.                     *)

MaxMissing == 2

\* the columns of a forecast distribution file
DistColumns == {"month", "day", "hour", "mean", "p5", "p10", "p90", "p95"}

\* the columns of the hourly generation historical file
ObsColumns ==
    {"year", "month", "day", "hour", "generation_mw", "shortwave_radiation", "temperature_2m"}

\* S without up to MaxMissing of its members
Lacking(S) == {S \ D : D \in {D \in SUBSET S : Cardinality(D) <= MaxMissing}}

SchemaSite == "Beta_LLC"

\* one month of a distribution file
DistRow == [month |-> 1, day |-> 1, hour |-> 0]

\* one row of a historical file
HistRow == [year |-> 2020, month |-> 1, day |-> 1, hour |-> 0, value |-> 10]

\* a complete year of observations that pass the scatter filter
ObsYear == [year |-> 2020, count |-> HoursPerYear, generation_mw |-> 2, shortwave_radiation |-> 1]

\* a timeseries table with a year column and a path column of one month
TsTable == [series |-> <<[name |-> "2020", values |-> <<Some(10)>>],
                         [name |-> "path_1", values |-> <<Some(20)>>]>>]

NoFiles == [dist |-> None, ts |-> None, hist |-> None, obs |-> None]

SchemaInputs ==
    LET dist == {[NoFiles EXCEPT !.dist = Some([columns |-> c, rows |-> r]), !.ts = ts] :
                    c \in Lacking(DistColumns), r \in {<<>>, <<DistRow>>},
                    ts \in {None, Some(TsTable)}}
        hist(m, t) == {[NoFiles EXCEPT !.hist = Some([columns |-> c, rows |-> r])] :
                    c \in Lacking(FileColumns(m, t)), r \in {<<>>, <<HistRow>>}}
        both(m, t) == {[NoFiles EXCEPT !.dist = Some([columns |-> DistColumns, rows |-> <<DistRow>>]),
                                        !.hist = Some([columns |-> FileColumns(m, t), rows |-> r])] :
                    r \in {<<>>, <<HistRow>>}}
        obs == {[NoFiles EXCEPT !.obs = Some([columns |-> c \cup extra, rows |-> r])] :
                    c \in Lacking(ObsColumns), extra \in {{}, {"datetime"}}, r \in {<<>>, <<ObsYear>>}}
    IN  {[metric |-> m, temporal |-> t, files |-> f] :
            m \in MetricTokens, t \in Temporals, f \in dist \cup {NoFiles}} \cup
        UNION {{[metric |-> m, temporal |-> t, files |-> f] : f \in hist(m, t) \cup both(m, t)} :
                    m \in MetricTokens, t \in Temporals} \cup
        {[metric |-> "generation", temporal |-> "hourly", files |-> f] : f \in obs}

\* a plot function returns
Show(op, out) ==
    /\ shown' = [op |-> op, out |-> out]
    /\ UNCHANGED <<fs, call, sitesCache, filesCache, thr, touched, df, havg, data, csvfile, req, ui>>

DailyForecast ==
    /\ data.temporal = "daily"
    /\ Show("daily-forecast", create_daily_forecast(data.files.dist, data.metric))

MonthlyForecast ==
    /\ data.temporal = "monthly"
    /\ Show("monthly-forecast",
            create_monthly_forecast(SchemaSite, data.files.dist, data.files.ts, data.files.hist, data.metric))

DiurnalPattern ==
    /\ data.temporal = "hourly"
    /\ Show("diurnal-pattern", create_diurnal_pattern(data.files.dist, data.files.hist, data.metric))

DailyHistorical ==
    /\ data.temporal = "daily"
    /\ Show("daily-historical", create_daily_historical(data.files.hist, data.metric))

MonthlyHistorical ==
    /\ data.temporal = "monthly"
    /\ Show("monthly-historical", create_monthly_historical(data.files.hist, data.metric))

\* the entropy of the moment a plot function is called at
Entropy == {0, 1}

GhiHour ==
    /\ data.metric = "generation" /\ data.temporal = "hourly"
    /\ \E e \in Entropy : Show("ghi-hour", create_ghi_vs_generation_hour(data.files.obs, e))

GhiTemp ==
    /\ data.metric = "generation" /\ data.temporal = "hourly"
    /\ \E e \in Entropy : Show("ghi-temp", create_ghi_vs_generation_temp(data.files.obs, e))

\* calculate_historical_average with the default num_years
HistoricalAverage ==
    Show("historical-average",
         calculate_historical_average(data.files.hist, data.metric, data.temporal, 10))

InitSchema ==
    /\ fs = << >>
    /\ call = NoCall
    /\ sitesCache = None
    /\ filesCache = << >>
    /\ thr = << >>
    /\ touched = FALSE
    /\ df = NoTable
    /\ havg = NoAverage
    /\ data \in SchemaInputs
    /\ shown = NoComponent
    /\ ui = << >>
    /\ req = << >>
    /\ csvfile = None

NextSchema ==
    \/ DailyForecast
    \/ MonthlyForecast
    \/ DiurnalPattern
    \/ DailyHistorical
    \/ MonthlyHistorical
    \/ GhiHour
    \/ GhiTemp
    \/ HistoricalAverage

SpecSchema == InitSchema /\ [][NextSchema]_vars

---------------------------------------------------------------------------
(* The plots of a timeseries file: a table of value columns, one per       *)
(* historical year ("1998") or simulated path ("path_7"), each holding a   *)
(* value or NaN (None) per row.                                            *)

Digits == <<"0", "1", "2", "3", "4", "5", "6", "7", "8", "9">>

\* str.isdigit
isdigit(s) ==
    /\ Len(s) > 0
    /\ \A i \in 1..Len(s) : \E d \in 1..Len(Digits) : SubSeq(s, i, i) = Digits[d]

\* int(s) of a string of digits
RECURSIVE int(_)
int(s) ==
    IF Len(s) = 0 THEN 0
    ELSE int(SubSeq(s, 1, Len(s) - 1)) * 10
            + (CHOOSE d \in 0..9 : SubSeq(s, Len(s), Len(s)) = Digits[d + 1])

\* lines 1783-1785 (and 1882-1884): the year columns, then the path columns
all_cols(frame) ==
    SelectSeq(frame.series, LAMBDA c : isdigit(c.name) /\ 1980 <= int(c.name) /\ int(c.name) <= 2024)
        \o SelectSeq(frame.series, LAMBDA c : startswith(c.name, "path_"))

\* Series.dropna().tolist()
dropna(values) ==
    LET kept == SelectSeq(values, LAMBDA v : v # None)
    IN  [i \in 1..Len(kept) |-> kept[i][1]]

RECURSIVE SumOf(_)
SumOf(values) == IF values = <<>> THEN 0 ELSE Head(values) + SumOf(Tail(values))

\* a fraction in lowest terms, d > 0
Frac(n, d) == LET g == Gcd(n, d) IN <<n \div g, d \div g>>

\* a column holds a year when it has one value at least
is_complete_year_some(values) == Len(dropna(values)) >= 1

\* line 1790: df[col].notna().sum() == 12
is_complete_year(values) == Len(dropna(values)) = 12

\* lines 1788-1791
annual_values(frame) ==
    LET complete == SelectSeq(all_cols(frame), LAMBDA c : is_complete_year(c.values))
    IN  [i \in 1..Len(complete) |-> SumOf(dropna(complete[i].values))]

RECURSIVE InsertValue(_, _)
InsertValue(v, s) ==
    IF s = <<>> THEN <<v>>
    ELSE IF v <= Head(s) THEN <<v>> \o s
    ELSE <<Head(s)>> \o InsertValue(v, Tail(s))

\* np.sort: ascending
RECURSIVE np_sort(_)
np_sort(values) == IF values = <<>> THEN <<>> ELSE InsertValue(Head(values), np_sort(Tail(values)))

\* a[::-1]
Reversed(s) == [i \in 1..Len(s) |-> s[Len(s) + 1 - i]]

\* np.percentile(values, q), linear interpolation between the order
\* statistics around position q/100 * (n - 1); exact, as a fraction
np_percentile(values, q) ==
    LET s == np_sort(values)
        h == q * (Len(s) - 1)
        lo == (h \div 100) + 1
        r == h % 100
    IN  IF r = 0 THEN Frac(s[lo], 1) ELSE Frac(s[lo] * (100 - r) + s[lo + 1] * r, 100)

\* np.mean, exact
np_mean(values) == Frac(SumOf(values), Len(values))

\* scipy.stats.gaussian_kde(values): None when it returns an estimator, the
\* text of the exception when it raises (one value; no spread)
gaussian_kde(values) ==
    IF Len(values) <= 1 THEN Some("dataset input should have multiple elements.")
    ELSE IF \A i \in 1..Len(values) : values[i] = values[1] THEN Some("singular matrix")
    ELSE None

\* lines 1772-1869
create_annual_distribution(ts_file, metric) ==
    IF ts_file = None THEN Alert("No monthly timeseries data available", "warning")
    ELSE LET values == annual_values(ts_file[1])
             kde == gaussian_kde(values)
         IN  IF values = <<>>
             THEN Alert("Insufficient data for annual distribution", "warning")
             ELSE IF kde # None THEN Alert("Error in annual distribution: " \o kde[1], "danger")
             ELSE IF metric \notin {"generation", "revenue_da", "revenue_rt"}
             THEN Alert("Error in annual distribution: " \o UnboundLocalError("title"), "danger")
             ELSE [kind |-> "graph",
                   traces |-> <<Trace("Distribution", 300)>>,
                   n |-> Len(values),
                   mean |-> np_mean(values),
                   p5 |-> np_percentile(values, 5),
                   p95 |-> np_percentile(values, 95)]

\* lines 1886-1892: the values of all columns, pooled
RECURSIVE all_values(_)
all_values(cols) ==
    IF cols = <<>> THEN <<>> ELSE dropna(Head(cols).values) \o all_values(Tail(cols))

\* the values as they come, not sorted
unsorted_values(values) == values

\* line 1898: np.sort(all_values)[::-1]
sorted_values(values) == Reversed(np_sort(values))

\* line 1900: np.linspace(0, 100, n), exact
duration_pct(n) == [i \in 1..n |-> IF n = 1 THEN Frac(0, 1) ELSE Frac(100 * (i - 1), n - 1)]

\* the labels taken at their face value
key_percentiles_as_labelled(values) ==
    [p10 |-> np_percentile(values, 10),
     p50 |-> np_percentile(values, 50),
     p90 |-> np_percentile(values, 90)]

\* lines 1904-1906
key_percentiles(values) ==
    [p10 |-> np_percentile(values, 90),
     p50 |-> np_percentile(values, 50),
     p90 |-> np_percentile(values, 10)]

\* lines 1871-1954
create_duration_curve(ts_file, metric) ==
    IF ts_file = None THEN Alert("No hourly timeseries data available", "warning")
    ELSE LET values == all_values(all_cols(ts_file[1]))
         IN  IF values = <<>>
             THEN Alert("Insufficient data for duration curve", "warning")
             ELSE [kind |-> "graph",
                   traces |-> <<Trace("Duration Curve", Len(values))>>,
                   x |-> duration_pct(Len(values)),
                   y |-> sorted_values(values),
                   mean |-> np_mean(values),
                   marks |-> key_percentiles(values)]

(* SpecSeries: the two plots on timeseries tables of up to MaxSeries       *)
(* columns.                                                                *)

MaxSeries == 3

\* column names: the first and the last year of 1980..2024, the years next
\* to them outside, and a path
SeriesNames == <<"1979", "1980", "2024", "2025", "path_1">>

\* the numbers of rows: a few hours, a year of months, a year and a month
SeriesLengths == {3, 12, 13}

\* a column of n rows that starts at a, rises by d per row, and ends with
\* gaps NaN
Column(name, n, a, d, gaps) ==
    [name |-> name,
     values |-> [i \in 1..n |-> IF i > n - gaps THEN None ELSE Some(a + d * (i - 1))]]

ColumnShapes ==
    {[a |-> 10, d |-> 10, gaps |-> 0], [a |-> 40, d |-> 10, gaps |-> 1],
     [a |-> 10, d |-> 0, gaps |-> 0], [a |-> 10, d |-> 0, gaps |-> 1]}

\* the tables of n rows whose columns are those named at the positions in
\* names (in that order), each of a shape
RECURSIVE SeriesOf(_, _)
SeriesOf(n, names) ==
    IF names = <<>> THEN {<<>>}
    ELSE {<<Column(Head(names), n, s.a, s.d, s.gaps)>> \o rest :
            s \in ColumnShapes, rest \in SeriesOf(n, Tail(names))}

SeriesTables ==
    UNION {SeriesOf(n, SelectSeq(SeriesNames, LAMBDA c : c \in chosen)) :
            n \in SeriesLengths,
            chosen \in {S \in SUBSET Range(SeriesNames) : Cardinality(S) <= MaxSeries}}

SeriesMetrics == {"generation"}

AnnualDistribution ==
    Show("annual-distribution", create_annual_distribution(data.files.ts, data.metric))

DurationCurve ==
    Show("duration-curve", create_duration_curve(data.files.ts, data.metric))

InitSeries ==
    /\ fs = << >>
    /\ call = NoCall
    /\ sitesCache = None
    /\ filesCache = << >>
    /\ thr = << >>
    /\ touched = FALSE
    /\ df = NoTable
    /\ havg = NoAverage
    /\ \E m \in SeriesMetrics, t \in SeriesTables \cup {<<>>} :
        data = [metric |-> m, temporal |-> "",
                files |-> [NoFiles EXCEPT !.ts = IF t = <<>> THEN None ELSE Some([series |-> t])]]
    /\ shown = NoComponent
    /\ ui = << >>
    /\ req = << >>
    /\ csvfile = None

NextSeries ==
    \/ AnnualDistribution
    \/ DurationCurve

SpecSeries == InitSeries /\ [][NextSeries]_vars

(* SpecScatter: the two scatter plots on hourly observations of up to      *)
(* MaxSpans spans of consecutive years, the years of a span alike.         *)

MaxSpans == 2

\* the first year observed
FirstYear == 2000

\* the numbers of years of a span
SpanLengths == {1, 5, 10}

\* what a year holds: rows that pass the filter, rows of too little
\* generation (0.1 MW) and rows without irradiance
YearShapes ==
    {[pass |-> HoursPerYear, low |-> 0, dark |-> 0],
     [pass |-> HoursPerYear - 1, low |-> 0, dark |-> 0],
     [pass |-> MaxPoints \div 5, low |-> HoursPerYear - (MaxPoints \div 5) - 1, dark |-> 1],
     [pass |-> MinPoints - 1, low |-> 1, dark |-> HoursPerYear - MinPoints],
     [pass |-> 1, low |-> HoursPerYear - 2, dark |-> 1]}

\* the blocks of one year
YearBlocks(y, s) ==
    SelectSeq(<<[year |-> y, count |-> s.pass, generation_mw |-> 2, shortwave_radiation |-> 1],
                [year |-> y, count |-> s.low, generation_mw |-> 1, shortwave_radiation |-> 1],
                [year |-> y, count |-> s.dark, generation_mw |-> 2, shortwave_radiation |-> 0]>>,
              LAMBDA b : b.count > 0)

\* the blocks of n years from y on
RECURSIVE SpanBlocks(_, _, _)
SpanBlocks(y, n, s) == IF n = 0 THEN <<>> ELSE YearBlocks(y, s) \o SpanBlocks(y + 1, n - 1, s)

\* the tables of at most k spans from year y on
RECURSIVE ObsRows(_, _)
ObsRows(y, k) ==
    IF k = 0 THEN {<<>>}
    ELSE {<<>>} \cup UNION {{SpanBlocks(y, n, s) \o rest :
                                s \in YearShapes, rest \in ObsRows(y + n, k - 1)} :
                             n \in SpanLengths}

ScatterInputs ==
    {[metric |-> "generation", temporal |-> "hourly",
      files |-> [NoFiles EXCEPT !.obs = Some([columns |-> c, rows |-> r])]] :
        c \in {ObsColumns, ObsColumns \ {"shortwave_radiation"}}, r \in ObsRows(FirstYear, MaxSpans)}

InitScatter ==
    /\ fs = << >>
    /\ call = NoCall
    /\ sitesCache = None
    /\ filesCache = << >>
    /\ thr = << >>
    /\ touched = FALSE
    /\ df = NoTable
    /\ havg = NoAverage
    /\ data \in ScatterInputs
    /\ shown = NoComponent
    /\ ui = << >>
    /\ req = << >>
    /\ csvfile = None

NextScatter ==
    \/ GhiHour
    \/ GhiTemp

SpecScatter == InitScatter /\ [][NextScatter]_vars

---------------------------------------------------------------------------
(* The main content callback.  The plot functions find and read the files  *)
(* of the selected site themselves; d tells which metric and temporal      *)
(* resolution the site has files for and what they hold.                   *)

Card(body) == [kind |-> "card", body |-> body]

\* the two sections without data
create_validation_content == Card([kind |-> "coming-soon", title |-> "Model Validation Tools"])

create_portfolio_content == Card([kind |-> "coming-soon", title |-> "Portfolio View"])

create_download_center == Card([kind |-> "coming-soon", title |-> "Download Center"])

\* `not x` of an Optional[str]
falsy(x) == x = None \/ x = Some("")

\* the two views that list the inventory: both call get_available_files
\* outside any try
create_file_explorer(f, cache, site_name, order) ==
    LET r == get_available_files(f, cache, site_name, order)
    IN  IF r.result.raised THEN r
        ELSE IF r.result.value = <<>>
             THEN [r EXCEPT !.result = Returned(Alert("No data files found for this site", "warning"))]
             ELSE [r EXCEPT !.result = Returned([kind |-> "file-explorer", files |-> r.result.value])]

create_data_summary(f, cache, site_name, order) ==
    LET r == get_available_files(f, cache, site_name, order)
    IN  IF r.result.raised THEN r
        ELSE IF r.result.value = <<>>
             THEN [r EXCEPT !.result = Returned(Alert("No data files found for this site", "warning"))]
             ELSE [r EXCEPT !.result =
                        Returned([kind |-> "data-summary", total_files |-> Len(r.result.value),
                                  metrics |-> {r.result.value[i].metric : i \in 1..Len(r.result.value)},
                                  file_types |-> {r.result.value[i].type : i \in 1..Len(r.result.value)}])]

create_data_view_content(f, cache, view_type, site_name, order) ==
    IF falsy(site_name)
    THEN [cache |-> cache, result |-> Returned(Alert("Please select a site to view data", "info"))]
    ELSE IF view_type = "file-explorer" THEN create_file_explorer(f, cache, site_name[1], order)
    ELSE IF view_type = "data-summary" THEN create_data_summary(f, cache, site_name[1], order)
    ELSE IF view_type = "download-center" THEN [cache |-> cache, result |-> Returned(create_download_center)]
    ELSE create_file_explorer(f, cache, site_name[1], order)

\* update_main_content: [cache, result], result the component returned or
\* the exception that left the callback.  The plot functions answer their own
\* exceptions with an alert, so nothing is raised inside the try.
update_main_content(f, cache, d, order, entropy, current_tab, plot_type, site_name, price_type, revenue_type, view_mode) ==
    LET metric == IF current_tab = "generation" THEN "generation"
                  ELSE IF current_tab = "price" THEN "price_" \o price_type
                  ELSE IF current_tab = "revenue" THEN "revenue_" \o revenue_type
                  ELSE "generation"
        found(m, temporal) == IF m = d.metric /\ temporal = d.temporal THEN d.files ELSE NoFiles
        type == IF plot_type = None THEN "" ELSE plot_type[1]
        plot ==
            IF type \in {"daily-forecast", "monthly-forecast"}
            THEN IF view_mode = "historical"
                 THEN IF type = "daily-forecast"
                      THEN create_daily_historical(found(metric, "daily").hist, metric)
                      ELSE create_monthly_historical(found(metric, "monthly").hist, metric)
                 ELSE IF type = "daily-forecast"
                      THEN create_daily_forecast(found(metric, "daily").dist, metric)
                      ELSE create_monthly_forecast(site_name[1], found(metric, "monthly").dist,
                                found(metric, "monthly").ts, found(metric, "monthly").hist, metric)
            ELSE IF type = "diurnal-pattern"
                 THEN create_diurnal_pattern(found(metric, "hourly").dist, found(metric, "hourly").hist, metric)
            ELSE IF type = "annual-distribution"
                 THEN create_annual_distribution(found(metric, "monthly").ts, metric)
            ELSE IF type = "duration-curve"
                 THEN create_duration_curve(found(metric, "hourly").ts, metric)
            ELSE IF type = "ghi-hour"
                 THEN create_ghi_vs_generation_hour(found("generation", "hourly").obs, entropy)
            ELSE IF type = "ghi-temp"
                 THEN create_ghi_vs_generation_temp(found("generation", "hourly").obs, entropy)
            ELSE Alert("Please select a plot type", "warning")
    IN  IF falsy(site_name) /\ current_tab \notin {"validation", "portfolio"}
        THEN [cache |-> cache, result |-> Returned(Alert("Please select a site to begin analysis", "info"))]
        ELSE IF current_tab = "validation"
        THEN [cache |-> cache, result |-> Returned(create_validation_content)]
        ELSE IF current_tab = "data"
        THEN create_data_view_content(f, cache, IF falsy(plot_type) THEN "file-explorer" ELSE plot_type[1],
                                      site_name, order)
        ELSE IF current_tab = "portfolio"
        THEN [cache |-> cache, result |-> Returned(create_portfolio_content)]
        ELSE [cache |-> cache, result |-> Returned(Card(plot))]

\* SpecRender: one site whose historical folder comes to hold a data file
\* and a link to a file that is gone
RenderSite == "alpha"

RenderFolders == {<<"alpha">>, <<"alpha", "Generation">>, <<"alpha", "Generation", "historical">>}

RenderUniverse ==
    {[path |-> <<"alpha", "Generation", "historical",
                 DataFileName("alpha", "generation", "hourly", "historical")>>, entry |-> File(1536)],
     [path |-> <<"alpha", "Generation", "historical", "stale.parquet">>, entry |-> Link]}

\* what the files of the site hold
RenderInputs ==
    {[metric |-> "generation", temporal |-> "hourly",
      files |-> [dist |-> Some([columns |-> DistColumns, rows |-> <<DistRow>>]),
                 ts |-> Some(TsTable),
                 hist |-> Some([columns |-> FileColumns("generation", "hourly"), rows |-> <<HistRow>>]),
                 obs |-> Some([columns |-> ObsColumns, rows |-> <<ObsYear>>])]],
     [metric |-> "price_da", temporal |-> "daily",
      files |-> [dist |-> Some([columns |-> DistColumns \ {"mean"}, rows |-> <<DistRow>>]),
                 ts |-> None,
                 hist |-> Some([columns |-> FileColumns("price_da", "daily") \ {"year"}, rows |-> <<HistRow>>]),
                 obs |-> None]]}

Tabs == {"generation", "price", "revenue", "validation", "data", "portfolio"}

PlotTypes ==
    {None} \cup {Some(t) : t \in {"daily-forecast", "monthly-forecast", "diurnal-pattern",
                                  "annual-distribution", "duration-curve", "ghi-hour", "ghi-temp",
                                  "file-explorer", "data-summary", "download-center"}}

SiteValues == {None, Some(RenderSite)}

ViewModes == {"forecast", "historical"}

\* the arguments of a request: an argument the callback does not look at on
\* the way taken is left at one value
Requests ==
    {r \in Tabs \X PlotTypes \X SiteValues \X {"da", "rt"} \X {"da", "rt"} \X ViewModes :
        /\ r[1] \in {"validation", "portfolio"} => r[2] \in {None, Some("daily-forecast")}
        /\ r[4] = "rt" => r[1] = "price" /\ r[2] \in {Some("daily-forecast"), Some("monthly-forecast")}
        /\ r[5] = "rt" => r[1] = "revenue" /\ r[2] \in {Some("daily-forecast"), Some("monthly-forecast")}
        /\ r[6] = "historical" => r[2] \in {Some("daily-forecast"), Some("monthly-forecast")}
        /\ r[3] = None => r[2] = None /\ r[4] = "da" /\ r[5] = "da" /\ r[6] = "forecast"}

UpdateMainContent ==
    /\ \E order \in Orderings(inventory_files(fs, RenderSite)), entropy \in Entropy, r \in Requests :
            /\ r[2] \notin {Some("ghi-hour"), Some("ghi-temp")} => entropy = 0
            /\ LET out == update_main_content(fs, filesCache, data, order, entropy,
                                              r[1], r[2], r[3], r[4], r[5], r[6])
               IN  /\ filesCache' = out.cache
                   /\ call' = [op |-> "update_main_content", args |-> r, result |-> out.result,
                               miss |-> FALSE]
    /\ UNCHANGED <<fs, sitesCache, thr, touched, df, havg, data, shown, csvfile, req, ui>>

InitRender ==
    /\ fs = [p \in RenderFolders |-> Dir]
    /\ call = NoCall
    /\ sitesCache = None
    /\ filesCache = << >>
    /\ thr = << >>
    /\ touched = FALSE
    /\ df = NoTable
    /\ havg = NoAverage
    /\ data \in RenderInputs
    /\ shown = NoComponent
    /\ ui = << >>
    /\ req = << >>
    /\ csvfile = None

NextRender ==
    \/ FsCreate(RenderUniverse)
    \/ UpdateMainContent

SpecRender == InitRender /\ [][NextRender]_vars

---------------------------------------------------------------------------
(* Construction of the dashboard: where portfolio_path ends up.  Here the  *)
(* tree is the one below the file system root, and the process runs in    *)
(* one of its directories.                                                 *)

PortfolioNames == {"Renewable Portfolio LLC", "Renewable Portfolio LLC_parquet"}

\* PurePath.name: the last component, '' for the root
path_name(p) == IF p = <<>> THEN "" ELSE Name(p)

\* the else branch taken for a path named as a portfolio directory as well
subfolder_of_any(f, p) ==
    IF exists(f, Join(p, "Renewable Portfolio LLC_parquet"))
    THEN Join(p, "Renewable Portfolio LLC_parquet")
    ELSE IF exists(f, Join(p, "Renewable Portfolio LLC"))
         THEN Join(p, "Renewable Portfolio LLC")
         ELSE p

\* the second statement of __init__: a path named as a portfolio directory
\* stays, any other gives way to a portfolio directory inside it
subfolder_of(f, p) ==
    IF path_name(p) \in PortfolioNames
    THEN p
    ELSE IF exists(f, Join(p, "Renewable Portfolio LLC_parquet"))
         THEN Join(p, "Renewable Portfolio LLC_parquet")
         ELSE IF exists(f, Join(p, "Renewable Portfolio LLC"))
              THEN Join(p, "Renewable Portfolio LLC")
              ELSE p

\* RenewablePortfolioDashboard(base_path) run in directory cwd: portfolio_path.
\* A relative Path(name) is the entry cwd / name.
RenewablePortfolioDashboard(f, cwd, base_path) ==
    LET first ==
            IF base_path = None
            THEN IF exists(f, Join(cwd, "Renewable Portfolio LLC_parquet"))
                 THEN Join(cwd, "Renewable Portfolio LLC_parquet")
                 ELSE IF exists(f, Join(cwd, "Renewable Portfolio LLC"))
                      THEN Join(cwd, "Renewable Portfolio LLC")
                      ELSE cwd
            ELSE base_path[1]
    IN subfolder_of(f, first)

\* SpecRoot: trees two levels deep; below data an entry may be a regular file
RootNames == {"data", "Renewable Portfolio LLC", "Renewable Portfolio LLC_parquet"}

RootPaths == {<<a>> : a \in RootNames} \cup {<<a, b>> : a \in RootNames, b \in RootNames}

RootUniverse ==
    {[path |-> p, entry |-> Dir] : p \in RootPaths}
        \cup {[path |-> p, entry |-> File(0)] : p \in {q \in RootPaths : Len(q) = 2 /\ q[1] = "data"}}

\* the directories a process may be started in
WorkingDirectories == {p \in {<<>>} \cup RootPaths : is_dir(fs, p)}

\* the override: none, or any path, present or not
Overrides == {None} \cup {Some(p) : p \in {<<>>} \cup RootPaths}

NewDashboard ==
    /\ \E cwd \in WorkingDirectories, base_path \in Overrides :
        call' = [op |-> "__init__", args |-> <<cwd, base_path>>,
                 result |-> Some(RenewablePortfolioDashboard(fs, cwd, base_path)), miss |-> FALSE]
    /\ UNCHANGED <<fs, sitesCache, filesCache, thr, touched, df, havg, data, shown, csvfile, req, ui>>

InitRoot == InitCommon

NextRoot ==
    \/ FsCreate(RootUniverse)
    \/ FsRemove
    \/ NewDashboard

SpecRoot == InitRoot /\ [][NextRoot]_vars

---------------------------------------------------------------------------
(* Suggestions.  Every gunicorn worker is a process of its own (sync       *)
(* workers, one request at a time each); they share suggestions.csv.       *)

\* at most this many submissions are begun
MaxSubmissions == 3

\* the worker processes
Workers == {"w1", "w2"}

fieldnames == <<"timestamp", "name", "email", "context", "suggestion", "priority">>

\* writer.writeheader(): the row of the field names
HeaderRow == [kind |-> "header", fields |-> fieldnames]

\* `x or default` of a form value
or_default(x, default) == IF x = None \/ x = Some("") THEN default ELSE x[1]

\* suggestion_data, in the order of fieldnames
suggestion_data(timestamp, name, email, context, suggestion_text, priority) ==
    [kind |-> "row",
     fields |-> <<timestamp, or_default(name, "Anonymous"), or_default(email, "Not provided"),
                  context, suggestion_text, priority>>]

\* the with block: the header if the file was not there at the test, then the row
rows_written(file_exists, row) ==
    IF ~file_exists THEN <<HeaderRow, row>> ELSE <<row>>

\* the form values a user may send
FormNames == {None, Some("Ann")}

\* submit_suggestion up to os.path.isfile: the row is built and the test made
SubmitTest(w) ==
    /\ w \notin DOMAIN req.handling
    /\ req.begun < MaxSubmissions
    /\ \E name \in FormNames :
        req' = [handling |-> [x \in DOMAIN req.handling \cup {w} |->
                                IF x = w
                                THEN [pc |-> "open", file_exists |-> csvfile # None,
                                      row |-> suggestion_data(req.begun + 1, name, None, Some("General"),
                                                              Some("more plots"), Some("medium"))]
                                ELSE req.handling[x]],
                begun |-> req.begun + 1,
                done |-> req.done]
    /\ UNCHANGED <<fs, call, sitesCache, filesCache, thr, touched, df, havg, data, shown, csvfile, ui>>

\* a click that is no click: the form comes back as it was
SubmitNothing(w) ==
    /\ w \notin DOMAIN req.handling
    /\ call' = [op |-> "submit_suggestion", args |-> <<0>>, result |-> Returned(FALSE), miss |-> FALSE]
    /\ UNCHANGED <<fs, sitesCache, filesCache, thr, touched, df, havg, data, shown, csvfile, req, ui>>

\* open(csv_filename, 'a'): the file is created when it is not there
SubmitOpen(w) ==
    /\ w \in DOMAIN req.handling
    /\ req.handling[w].pc = "open"
    /\ csvfile' = IF csvfile = None THEN Some(<<>>) ELSE csvfile
    /\ req' = [req EXCEPT !.handling[w].pc = "write"]
    /\ UNCHANGED <<fs, call, sitesCache, filesCache, thr, touched, df, havg, data, shown, ui>>

\* the body of the with block and its end: what was written is appended when
\* the file is closed, and the callback returns
SubmitWrite(w) ==
    /\ w \in DOMAIN req.handling
    /\ req.handling[w].pc = "write"
    /\ csvfile' = Some(csvfile[1] \o rows_written(req.handling[w].file_exists, req.handling[w].row))
    /\ req' = [handling |-> [x \in DOMAIN req.handling \ {w} |-> req.handling[x]],
               begun |-> req.begun,
               done |-> req.done + 1]
    /\ call' = [op |-> "submit_suggestion", args |-> <<1>>, result |-> Returned(TRUE), miss |-> FALSE]
    /\ UNCHANGED <<fs, sitesCache, filesCache, thr, touched, df, havg, data, shown, ui>>

InitSuggest ==
    /\ fs = << >>
    /\ call = NoCall
    /\ sitesCache = None
    /\ filesCache = << >>
    /\ thr = << >>
    /\ touched = FALSE
    /\ df = NoTable
    /\ havg = NoAverage
    /\ data = NoData
    /\ shown = NoComponent
    /\ ui = << >>
    /\ csvfile = None
    /\ req = [handling |-> << >>, begun |-> 0, done |-> 0]

NextSuggest ==
    \E w \in Workers :
        \/ SubmitTest(w)
        \/ SubmitNothing(w)
        \/ SubmitOpen(w)
        \/ SubmitWrite(w)

SpecSuggest == InitSuggest /\ [][NextSuggest]_vars

---------------------------------------------------------------------------
(* clean_site_name.  A str is the sequence of its code points here, so     *)
(* that characters outside ASCII can be told apart.                        *)

\* at most this many fragments make up a name
MaxFragments == 3

UpperCase == "ABCDEFGHIJKLMNOPQRSTUVWXYZ"

LowerCase == "abcdefghijklmnopqrstuvwxyz"

\* ord(c) of a letter, a space or an underscore
ord(c) ==
    IF c = " " THEN 32
    ELSE IF c = "_" THEN 95
    ELSE IF \E i \in 1..26 : SubSeq(UpperCase, i, i) = c
         THEN 64 + (CHOOSE i \in 1..26 : SubSeq(UpperCase, i, i) = c)
         ELSE 96 + (CHOOSE i \in 1..26 : SubSeq(LowerCase, i, i) = c)

\* the code points of a str literal
Encode(s) == [i \in 1..Len(s) |-> ord(SubSeq(s, i, i))]

\* GREEK SMALL LETTER IOTA WITH DIALYTIKA AND TONOS, whose title case is
\* GREEK CAPITAL LETTER IOTA followed by two combining marks
IotaDialytikaTonos == 912
CapitalIota == 921
SmallIota == 953
CombiningDiaeresis == 776
CombiningAcute == 769

IsUpper(c) == c \in 65..90
IsLower(c) == c \in 97..122

\* the Cased property: letters with a case; a combining mark has none
is_cased(c) == IsUpper(c) \/ IsLower(c) \/ c \in {IotaDialytikaTonos, CapitalIota, SmallIota}

\* the full lower-case mapping of a code point
to_lower(c) ==
    IF IsUpper(c) THEN <<c + 32>>
    ELSE IF c = CapitalIota THEN <<SmallIota>>
    ELSE <<c>>

\* the full title-case mapping of a code point
to_title(c) ==
    IF IsLower(c) THEN <<c - 32>>
    ELSE IF c = SmallIota THEN <<CapitalIota>>
    ELSE IF c = IotaDialytikaTonos THEN <<CapitalIota, CombiningDiaeresis, CombiningAcute>>
    ELSE <<c>>

\* str.replace(old, new): the occurrences of old from the left, not overlapping
RECURSIVE str_replace(_, _, _)
str_replace(s, old, new) ==
    IF Len(s) < Len(old) THEN s
    ELSE IF SubSeq(s, 1, Len(old)) = old
         THEN new \o str_replace(SubSeq(s, Len(old) + 1, Len(s)), old, new)
         ELSE <<s[1]>> \o str_replace(SubSeq(s, 2, Len(s)), old, new)

\* str.title(): a character after a cased one is lowered, any other is put in
\* title case
RECURSIVE title_from(_, _)
title_from(s, previous_is_cased) ==
    IF s = <<>> THEN <<>>
    ELSE (IF previous_is_cased THEN to_lower(s[1]) ELSE to_title(s[1]))
            \o title_from(SubSeq(s, 2, Len(s)), is_cased(s[1]))

str_title(s) == title_from(s, FALSE)

\* str.capitalize() on the names at hand: the first character in title case,
\* the rest lowered
str_capitalize(s) ==
    IF s = <<>> THEN <<>>
    ELSE to_title(s[1]) \o title_from(SubSeq(s, 2, Len(s)), TRUE)

\* the display name with only its first letter raised
clean_site_name_capitalized(site_name) ==
    LET clean_name == str_replace(str_replace(site_name, Encode("_LLC"), <<>>), Encode("_Power"), <<>>)
    IN  str_capitalize(str_replace(clean_name, Encode("_"), Encode(" ")))

clean_site_name(site_name) ==
    LET clean_name == str_replace(str_replace(site_name, Encode("_LLC"), <<>>), Encode("_Power"), <<>>)
    IN  str_title(str_replace(clean_name, Encode("_"), Encode(" ")))

\* SpecNames: names put together from fragments, and the names of the examples
Fragments ==
    {Encode("_LLC"), Encode("_Power"), Encode("_"), Encode("a"), Encode("B"), Encode("LL"),
     Encode("C"), Encode(" "), <<IotaDialytikaTonos>>}

RECURSIVE NamesOf(_)
NamesOf(n) ==
    IF n = 0 THEN {<<>>}
    ELSE LET shorter == NamesOf(n - 1)
         IN  shorter \cup {x \o y : x \in shorter, y \in Fragments}

SiteNames == NamesOf(MaxFragments) \cup {Encode("Foo_Bar_LLC"), Encode("Alpha_Power_Site")}

\* clean_site_name(site_name) of the name at hand
CleanSiteName ==
    /\ call.op = "name"
    /\ call' = [op |-> "clean_site_name", args |-> call.args,
                result |-> Returned(clean_site_name(call.args[1])), miss |-> FALSE]
    /\ UNCHANGED <<fs, sitesCache, filesCache, thr, touched, df, havg, data, shown, csvfile, req, ui>>

\* clean_site_name applied to a name it returned
CleanAgain ==
    /\ call.op = "clean_site_name"
    /\ ~call.miss
    /\ call' = [op |-> "clean_site_name", args |-> <<call.result.value>>,
                result |-> Returned(clean_site_name(call.result.value)), miss |-> TRUE]
    /\ UNCHANGED <<fs, sitesCache, filesCache, thr, touched, df, havg, data, shown, csvfile, req, ui>>

\* a site name is at hand
InitNames ==
    /\ fs = << >>
    /\ \E site_name \in SiteNames :
        call = [op |-> "name", args |-> <<site_name>>, result |-> None, miss |-> FALSE]
    /\ sitesCache = None
    /\ filesCache = << >>
    /\ thr = << >>
    /\ touched = FALSE
    /\ df = NoTable
    /\ havg = NoAverage
    /\ data = NoData
    /\ shown = NoComponent
    /\ ui = << >>
    /\ csvfile = None
    /\ req = << >>

NextNames ==
    \/ CleanSiteName
    \/ CleanAgain

SpecNames == InitNames /\ [][NextNames]_vars

---------------------------------------------------------------------------
(* The page.  ui holds the five stores and the site dropdown, what the     *)
(* three rendered areas display (sub-navigation, plot type buttons, main   *)
(* content) and the callbacks the renderer has requested and not yet run.  *)
(* n_clicks of a button is 0 for None and 1 for any positive count: the    *)
(* callbacks only test it for truth.                                       *)

\* handle_nav_clicks: the new current tab; triggered is ctx.triggered_id
handle_nav_clicks(triggered, current_tab) ==
    LET new_tab == IF triggered = Some("nav-generation") THEN "generation"
                   ELSE IF triggered = Some("nav-price") THEN "price"
                   ELSE IF triggered = Some("nav-revenue") THEN "revenue"
                   ELSE IF triggered = Some("nav-validation") THEN "validation"
                   ELSE IF triggered = Some("nav-data") THEN "data"
                   ELSE IF triggered = Some("nav-portfolio") THEN "portfolio"
                   ELSE IF current_tab = "" THEN "generation" ELSE current_tab
    IN  IF new_tab \notin {"generation", "price", "revenue", "validation", "data", "portfolio"}
        THEN "generation"
        ELSE new_tab

\* no sub-navigation displayed
NoSubNavigation == [kind |-> "none", da_outline |-> FALSE, rt_outline |-> FALSE]

\* update_sub_navigation_top: the card with the Day-Ahead and Real-Time
\* buttons and their outline properties
update_sub_navigation_top(current_tab) ==
    IF current_tab = "price" THEN [kind |-> "price", da_outline |-> FALSE, rt_outline |-> TRUE]
    ELSE IF current_tab = "revenue" THEN [kind |-> "revenue", da_outline |-> FALSE, rt_outline |-> TRUE]
    ELSE NoSubNavigation

\* handle_price_nav: (outline of price-da-btn, outline of price-rt-btn,
\* price-type), or PreventUpdate
handle_price_nav(triggered, current_type, current_tab) ==
    IF current_tab # "price" THEN Raised("PreventUpdate")
    ELSE IF triggered = Some("price-da-btn") THEN Returned(<<FALSE, TRUE, "da">>)
    ELSE IF triggered = Some("price-rt-btn") THEN Returned(<<TRUE, FALSE, "rt">>)
    ELSE Returned(<<current_type = "rt", current_type = "da", current_type>>)

handle_revenue_nav(triggered, current_type, current_tab) ==
    IF current_tab # "revenue" THEN Raised("PreventUpdate")
    ELSE IF triggered = Some("revenue-da-btn") THEN Returned(<<FALSE, TRUE, "da">>)
    ELSE IF triggered = Some("revenue-rt-btn") THEN Returned(<<TRUE, FALSE, "rt">>)
    ELSE Returned(<<current_type = "rt", current_type = "da", current_type>>)

\* the values of the buttons update_plot_buttons lists for a tab, in order; a
\* mutation that lists the generation buttons on every plotting tab
plot_buttons_of_generation(current_tab) ==
    IF current_tab \in {"generation", "price", "revenue"}
    THEN <<"daily-forecast", "monthly-forecast", "diurnal-pattern", "annual-distribution",
           "ghi-hour", "ghi-temp">>
    ELSE IF current_tab = "data" THEN <<"file-explorer", "data-summary", "download-center">>
    ELSE << >>

plot_buttons(current_tab) ==
    IF current_tab = "generation"
    THEN <<"daily-forecast", "monthly-forecast", "diurnal-pattern", "annual-distribution",
           "ghi-hour", "ghi-temp">>
    ELSE IF current_tab = "price"
    THEN <<"daily-forecast", "monthly-forecast", "diurnal-pattern", "duration-curve">>
    ELSE IF current_tab = "revenue"
    THEN <<"daily-forecast", "monthly-forecast", "annual-distribution">>
    ELSE IF current_tab = "data"
    THEN <<"file-explorer", "data-summary", "download-center">>
    ELSE << >>

\* a plot type button as rendered: id.index, color, outline, n_clicks
PlotButton(value, selected) ==
    [index |-> value, color |-> IF value = selected THEN "primary" ELSE "secondary",
     outline |-> value # selected, n_clicks |-> 0]

\* update_plot_buttons: the children of plot-type-buttons (no button for
\* None) and the data of current-plot-type; a mutation that keeps the plot
\* type instead of resetting it
update_plot_buttons_keeping(current_tab, price_type, revenue_type, current_plot_type) ==
    LET buttons == plot_buttons(current_tab)
    IN  IF current_tab \notin {"generation", "price", "revenue", "data"}
        THEN [children |-> << >>, data |-> current_plot_type]
        ELSE IF current_tab \in {"validation", "data", "portfolio"}
        THEN [children |-> << >>, data |-> current_plot_type]
        ELSE [children |-> [i \in 1..Len(buttons) |-> PlotButton(buttons[i], current_plot_type)],
              data |-> current_plot_type]

update_plot_buttons(current_tab, price_type, revenue_type, current_plot_type) ==
    LET buttons == plot_buttons(current_tab)
        new_plot_type == "monthly-forecast"
    IN  IF current_tab \notin {"generation", "price", "revenue", "data"}
        THEN [children |-> << >>, data |-> current_plot_type]
        ELSE IF current_tab \in {"validation", "data", "portfolio"}
        THEN [children |-> << >>, data |-> new_plot_type]
        ELSE [children |-> [i \in 1..Len(buttons) |-> PlotButton(buttons[i], new_plot_type)],
              data |-> new_plot_type]

\* update_plot_type_from_click: the new current-plot-type.  triggered is the
\* index of the button ctx.triggered names, None without one.
update_plot_type_from_click(n_clicks, current_type, button_ids, current_tab, triggered) ==
    LET kept == IF current_type = "" THEN "monthly-forecast" ELSE current_type
        hits == {i \in 1..Len(n_clicks) :
                    n_clicks[i] > 0 /\ i <= Len(button_ids) /\ triggered = Some(button_ids[i])}
    IN  IF current_tab \in {"validation", "data", "portfolio"} THEN kept
        ELSE IF n_clicks = << >> \/ button_ids = << >> \/ (\A i \in 1..Len(n_clicks) : n_clicks[i] = 0)
        THEN kept
        ELSE IF hits # {} THEN button_ids[CHOOSE i \in hits : \A j \in hits : i <= j]
        ELSE kept

\* update_plot_type_buttons: color and outline of every plot type button,
\* nothing for no button
update_plot_type_buttons(current_type, button_ids, current_tab) ==
    IF button_ids = << >> \/ current_tab \in {"validation", "data", "portfolio"} THEN << >>
    ELSE IF current_type = ""
    THEN [i \in 1..Len(button_ids) |-> [color |-> "secondary", outline |-> TRUE]]
    ELSE [i \in 1..Len(button_ids) |->
            [color |-> IF button_ids[i] = current_type THEN "primary" ELSE "secondary",
             outline |-> button_ids[i] # current_type]]

\* toggle_view_mode: the new view-mode; triggered is the action of
\* ctx.triggered_id, None without one
toggle_view_mode(monthly_clicks, daily_clicks, current_mode, triggered) ==
    IF (\A i \in 1..Len(monthly_clicks) : monthly_clicks[i] = 0)
       /\ (\A i \in 1..Len(daily_clicks) : daily_clicks[i] = 0)
    THEN current_mode
    ELSE IF triggered = Some("to-historical") THEN "historical"
    ELSE IF triggered = Some("to-forecast") THEN "forecast"
    ELSE current_mode

\* reset_view_mode; a mutation that resets to the other view mode
reset_view_mode_historical(current_tab, plot_type) == "historical"

reset_view_mode(current_tab, plot_type) == "forecast"

\* The main content as the page needs it: the function update_main_content
\* hands the request to, the metric it hands over ("" for none), and the
\* view button the returned plot carries (type and action of its id).
NoViewButton == [type |-> "", action |-> "", n_clicks |-> 0]

NoMainContent == [fn |-> "", metric |-> "", button |-> NoViewButton]

ViewButton(type, action) == [type |-> type, action |-> action, n_clicks |-> 0]

main_content(current_tab, plot_type, site_name, price_type, revenue_type, view_mode) ==
    LET metric == IF current_tab = "generation" THEN "generation"
                  ELSE IF current_tab = "price" THEN "price_" \o price_type
                  ELSE IF current_tab = "revenue" THEN "revenue_" \o revenue_type
                  ELSE "generation"
        view_type == IF plot_type = "" THEN "file-explorer" ELSE plot_type
        plain(fn, m) == [fn |-> fn, metric |-> m, button |-> NoViewButton]
    IN  IF falsy(site_name) /\ current_tab \notin {"validation", "portfolio"}
        THEN plain("Alert", "")
        ELSE IF current_tab = "validation" THEN plain("create_validation_content", "")
        ELSE IF current_tab = "data"
        THEN IF view_type = "data-summary" THEN plain("create_data_summary", "")
             ELSE IF view_type = "download-center" THEN plain("create_download_center", "")
             ELSE plain("create_file_explorer", "")
        ELSE IF current_tab = "portfolio" THEN plain("create_portfolio_content", "")
        ELSE IF plot_type \in {"daily-forecast", "monthly-forecast"}
        THEN IF view_mode = "historical"
             THEN IF plot_type = "daily-forecast"
                  THEN [fn |-> "create_daily_historical", metric |-> metric,
                        button |-> ViewButton("daily-view-nav-btn", "to-forecast")]
                  ELSE [fn |-> "create_monthly_historical", metric |-> metric,
                        button |-> ViewButton("view-nav-btn", "to-forecast")]
             ELSE IF plot_type = "daily-forecast"
                  THEN [fn |-> "create_daily_forecast", metric |-> metric,
                        button |-> ViewButton("daily-view-nav-btn", "to-historical")]
                  ELSE [fn |-> "create_monthly_forecast", metric |-> metric,
                        button |-> ViewButton("view-nav-btn", "to-historical")]
        ELSE IF plot_type = "diurnal-pattern" THEN plain("create_diurnal_pattern", metric)
        ELSE IF plot_type = "annual-distribution" THEN plain("create_annual_distribution", metric)
        ELSE IF plot_type = "duration-curve" THEN plain("create_duration_curve", metric)
        ELSE IF plot_type = "ghi-hour" THEN plain("create_ghi_vs_generation_hour", "generation")
        ELSE IF plot_type = "ghi-temp" THEN plain("create_ghi_vs_generation_temp", "generation")
        ELSE plain("Alert", "")

\* The renderer.  A callback is requested when a property among its inputs
\* is written (also with the value it had) or when components among its
\* inputs are inserted or removed; a requested callback waits while another
\* requested callback writes, as a plain output, a property it reads.  An
\* output declared with allow_duplicate holds nobody back.
Callbacks ==
    {"handle_nav_clicks", "update_sub_navigation_top", "update_plot_buttons",
     "update_plot_type_from_click", "update_plot_type_buttons", "update_main_content",
     "toggle_view_mode", "reset_view_mode"}

Reads(cb) ==
    IF cb = "handle_nav_clicks" THEN {"current-tab"}
    ELSE IF cb = "update_sub_navigation_top" THEN {"current-tab"}
    ELSE IF cb = "update_plot_buttons"
    THEN {"current-tab", "price-type", "revenue-type", "current-plot-type"}
    ELSE IF cb = "update_plot_type_from_click" THEN {"current-plot-type", "current-tab"}
    ELSE IF cb = "update_plot_type_buttons" THEN {"current-plot-type", "current-tab"}
    ELSE IF cb = "update_main_content"
    THEN {"current-tab", "current-plot-type", "site-dropdown", "price-type", "revenue-type", "view-mode"}
    ELSE IF cb = "toggle_view_mode" THEN {"view-mode"}
    ELSE {"current-tab", "current-plot-type"}

Writes(cb) ==
    IF cb = "handle_nav_clicks" THEN {"current-tab"}
    ELSE IF cb = "update_plot_buttons" THEN {"current-plot-type"}
    ELSE IF cb = "toggle_view_mode" THEN {"view-mode"}
    ELSE {}

\* the callbacks with the property among their Inputs
OnCurrentTab ==
    {"update_sub_navigation_top", "update_plot_buttons", "update_main_content", "reset_view_mode"}

OnPriceType == {"update_plot_buttons", "update_main_content"}

OnRevenueType == {"update_plot_buttons", "update_main_content"}

OnCurrentPlotType == {"update_plot_type_buttons", "update_main_content", "reset_view_mode"}

OnViewMode == {"update_main_content"}

OnSite == {"update_main_content"}

Ready(cb) ==
    /\ cb \in ui.pending
    /\ \A other \in ui.pending \ {cb} : Writes(other) \cap Reads(cb) = {}

Settled == ui.pending = {}

Ran(cb, triggered, cause) == [cb |-> cb, triggered |-> triggered, cause |-> cause]

\* The callbacks the renderer runs on its own.

\* the call of handle_nav_clicks at page load (prevent_initial_call=False)
LoadNav ==
    /\ Ready("handle_nav_clicks")
    /\ ui' = [ui EXCEPT !.current_tab = handle_nav_clicks(None, ui.current_tab),
                        !.pending = (@ \ {"handle_nav_clicks"}) \cup OnCurrentTab,
                        !.last = Ran("handle_nav_clicks", None, ui.last.cause)]
    /\ UNCHANGED <<fs, call, sitesCache, filesCache, thr, touched, df, havg, data, shown, csvfile, req>>

UpdateSubNavigationTop ==
    /\ Ready("update_sub_navigation_top")
    /\ ui' = [ui EXCEPT !.sub_navigation = update_sub_navigation_top(ui.current_tab),
                        !.pending = @ \ {"update_sub_navigation_top"},
                        !.last = Ran("update_sub_navigation_top", None, ui.last.cause)]
    /\ UNCHANGED <<fs, call, sitesCache, filesCache, thr, touched, df, havg, data, shown, csvfile, req>>

\* the plot type buttons are replaced: update_plot_type_from_click has them
\* among its inputs and is requested when buttons come or go
UpdatePlotButtons ==
    /\ Ready("update_plot_buttons")
    /\ LET out == update_plot_buttons(ui.current_tab, ui.price_type, ui.revenue_type,
                                      ui.current_plot_type)
       IN  ui' = [ui EXCEPT !.plot_buttons = out.children,
                            !.current_plot_type = out.data,
                            !.pending = ((@ \ {"update_plot_buttons"}) \cup OnCurrentPlotType)
                                        \cup IF ui.plot_buttons # << >> \/ out.children # << >>
                                             THEN {"update_plot_type_from_click"} ELSE {},
                            !.last = Ran("update_plot_buttons", None, ui.last.cause)]
    /\ UNCHANGED <<fs, call, sitesCache, filesCache, thr, touched, df, havg, data, shown, csvfile, req>>

\* update_plot_type_from_click called for buttons that came or went
PlotButtonsInserted ==
    /\ Ready("update_plot_type_from_click")
    /\ LET b == ui.plot_buttons
       IN  ui' = [ui EXCEPT !.current_plot_type =
                                update_plot_type_from_click([i \in 1..Len(b) |-> b[i].n_clicks],
                                    ui.current_plot_type, [i \in 1..Len(b) |-> b[i].index],
                                    ui.current_tab, None),
                            !.pending = (@ \ {"update_plot_type_from_click"}) \cup OnCurrentPlotType,
                            !.last = Ran("update_plot_type_from_click", None, ui.last.cause)]
    /\ UNCHANGED <<fs, call, sitesCache, filesCache, thr, touched, df, havg, data, shown, csvfile, req>>

UpdatePlotTypeButtons ==
    /\ Ready("update_plot_type_buttons")
    /\ LET b == ui.plot_buttons
           out == update_plot_type_buttons(ui.current_plot_type, [i \in 1..Len(b) |-> b[i].index],
                                           ui.current_tab)
       IN  ui' = [ui EXCEPT !.plot_buttons =
                                IF Len(out) = Len(b)
                                THEN [i \in 1..Len(b) |->
                                        [b[i] EXCEPT !.color = out[i].color, !.outline = out[i].outline]]
                                ELSE b,
                            !.pending = @ \ {"update_plot_type_buttons"},
                            !.last = Ran("update_plot_type_buttons", None, ui.last.cause)]
    /\ UNCHANGED <<fs, call, sitesCache, filesCache, thr, touched, df, havg, data, shown, csvfile, req>>

\* the main content is replaced: toggle_view_mode has the view buttons among
\* its inputs and is requested when one comes or goes
UpdateMain ==
    /\ Ready("update_main_content")
    /\ LET out == main_content(ui.current_tab, ui.current_plot_type, ui.site, ui.price_type,
                               ui.revenue_type, ui.view_mode)
       IN  ui' = [ui EXCEPT !.main = out,
                            !.pending = (@ \ {"update_main_content"})
                                        \cup IF ui.main.button # NoViewButton \/ out.button # NoViewButton
                                             THEN {"toggle_view_mode"} ELSE {},
                            !.last = Ran("update_main_content", None, ui.last.cause)]
    /\ UNCHANGED <<fs, call, sitesCache, filesCache, thr, touched, df, havg, data, shown, csvfile, req>>

\* the clicks toggle_view_mode receives: one list per button type
ViewClicks(type) == IF ui.main.button.type = type THEN <<ui.main.button.n_clicks>> ELSE << >>

\* toggle_view_mode called for a view button that came or went.  The
\* renderer drops update_main_content when it is requested again by its own
\* output, so it is requested only if the view mode changed.
ViewButtonInserted ==
    /\ Ready("toggle_view_mode")
    /\ LET mode == toggle_view_mode(ViewClicks("view-nav-btn"), ViewClicks("daily-view-nav-btn"),
                                    ui.view_mode, None)
       IN  ui' = [ui EXCEPT !.view_mode = mode,
                            !.pending = (@ \ {"toggle_view_mode"})
                                        \cup IF mode # ui.view_mode THEN OnViewMode ELSE {},
                            !.last = Ran("toggle_view_mode", None, ui.last.cause)]
    /\ UNCHANGED <<fs, call, sitesCache, filesCache, thr, touched, df, havg, data, shown, csvfile, req>>

ResetViewMode ==
    /\ Ready("reset_view_mode")
    /\ ui' = [ui EXCEPT !.view_mode = reset_view_mode(ui.current_tab, ui.current_plot_type),
                        !.pending = (@ \ {"reset_view_mode"}) \cup OnViewMode,
                        !.last = Ran("reset_view_mode", None, ui.last.cause)]
    /\ UNCHANGED <<fs, call, sitesCache, filesCache, thr, touched, df, havg, data, shown, csvfile, req>>

\* What the user does, on a page whose callbacks have settled: the click
\* and the call of the callback that has the clicked property as input.

ClickNav(tab) ==
    /\ Settled
    /\ ui' = [ui EXCEPT !.current_tab = handle_nav_clicks(Some("nav-" \o tab), ui.current_tab),
                        !.pending = OnCurrentTab,
                        !.last = Ran("handle_nav_clicks", Some("nav-" \o tab), "tab")]
    /\ UNCHANGED <<fs, call, sitesCache, filesCache, thr, touched, df, havg, data, shown, csvfile, req>>

\* handle_price_nav is not called for buttons that were just inserted: two
\* of its outputs are inserted with them and prevent_initial_call is set
ClickPrice(type) ==
    /\ Settled
    /\ ui.sub_navigation.kind = "price"
    /\ LET id == "price-" \o type \o "-btn"
           out == handle_price_nav(Some(id), ui.price_type, ui.current_tab)
       IN  ui' = IF out.raised
                 THEN [ui EXCEPT !.last = Ran("handle_price_nav", Some(id), "price")]
                 ELSE [ui EXCEPT !.sub_navigation.da_outline = out.value[1],
                                 !.sub_navigation.rt_outline = out.value[2],
                                 !.price_type = out.value[3],
                                 !.pending = OnPriceType,
                                 !.last = Ran("handle_price_nav", Some(id), "price")]
    /\ UNCHANGED <<fs, call, sitesCache, filesCache, thr, touched, df, havg, data, shown, csvfile, req>>

ClickRevenue(type) ==
    /\ Settled
    /\ ui.sub_navigation.kind = "revenue"
    /\ LET id == "revenue-" \o type \o "-btn"
           out == handle_revenue_nav(Some(id), ui.revenue_type, ui.current_tab)
       IN  ui' = IF out.raised
                 THEN [ui EXCEPT !.last = Ran("handle_revenue_nav", Some(id), "revenue")]
                 ELSE [ui EXCEPT !.sub_navigation.da_outline = out.value[1],
                                 !.sub_navigation.rt_outline = out.value[2],
                                 !.revenue_type = out.value[3],
                                 !.pending = OnRevenueType,
                                 !.last = Ran("handle_revenue_nav", Some(id), "revenue")]
    /\ UNCHANGED <<fs, call, sitesCache, filesCache, thr, touched, df, havg, data, shown, csvfile, req>>

ClickPlot(i) ==
    /\ Settled
    /\ i \in 1..Len(ui.plot_buttons)
    /\ LET b == [ui.plot_buttons EXCEPT ![i].n_clicks = 1]
       IN  ui' = [ui EXCEPT !.plot_buttons = b,
                            !.current_plot_type =
                                update_plot_type_from_click([j \in 1..Len(b) |-> b[j].n_clicks],
                                    ui.current_plot_type, [j \in 1..Len(b) |-> b[j].index],
                                    ui.current_tab, Some(b[i].index)),
                            !.pending = OnCurrentPlotType,
                            !.last = Ran("update_plot_type_from_click", Some(b[i].index), "plot")]
    /\ UNCHANGED <<fs, call, sitesCache, filesCache, thr, touched, df, havg, data, shown, csvfile, req>>

ClickView ==
    /\ Settled
    /\ ui.main.button # NoViewButton
    /\ LET clicked == [ui.main.button EXCEPT !.n_clicks = 1]
           clicks(type) == IF clicked.type = type THEN <<clicked.n_clicks>> ELSE << >>
       IN  ui' = [ui EXCEPT !.main.button = clicked,
                            !.view_mode = toggle_view_mode(clicks("view-nav-btn"),
                                              clicks("daily-view-nav-btn"), @, Some(clicked.action)),
                            !.pending = OnViewMode,
                            !.last = Ran("toggle_view_mode", Some(clicked.action), "view")]
    /\ UNCHANGED <<fs, call, sitesCache, filesCache, thr, touched, df, havg, data, shown, csvfile, req>>

SelectSite(value) ==
    /\ Settled
    /\ value # ui.site
    /\ ui' = [ui EXCEPT !.site = value,
                        !.pending = OnSite,
                        !.last = Ran("site-dropdown", value, "site")]
    /\ UNCHANGED <<fs, call, sitesCache, filesCache, thr, touched, df, havg, data, shown, csvfile, req>>

\* the layout as served: the stores hold their defaults, the dropdown the
\* first site if there is one, and the callbacks without
\* prevent_initial_call are requested
InitUi ==
    /\ fs = << >>
    /\ call = NoCall
    /\ sitesCache = None
    /\ filesCache = << >>
    /\ thr = << >>
    /\ touched = FALSE
    /\ df = NoTable
    /\ havg = NoAverage
    /\ data = NoData
    /\ shown = NoComponent
    /\ csvfile = None
    /\ req = << >>
    /\ \E site \in SiteValues :
        ui = [current_tab |-> "generation", current_plot_type |-> "monthly-forecast",
              price_type |-> "da", revenue_type |-> "da", view_mode |-> "forecast",
              site |-> site, sub_navigation |-> NoSubNavigation, plot_buttons |-> << >>,
              main |-> NoMainContent,
              pending |-> {"handle_nav_clicks", "update_sub_navigation_top", "update_plot_buttons",
                           "update_main_content"},
              last |-> Ran("layout", None, "load")]

NextUi ==
    \/ LoadNav
    \/ UpdateSubNavigationTop
    \/ UpdatePlotButtons
    \/ PlotButtonsInserted
    \/ UpdatePlotTypeButtons
    \/ UpdateMain
    \/ ViewButtonInserted
    \/ ResetViewMode
    \/ \E tab \in Tabs : ClickNav(tab)
    \/ \E type \in {"da", "rt"} : ClickPrice(type)
    \/ \E type \in {"da", "rt"} : ClickRevenue(type)
    \/ \E i \in 1..Len(plot_buttons("generation")) : ClickPlot(i)
    \/ ClickView
    \/ \E value \in SiteValues : SelectSite(value)

SpecUi == InitUi /\ [][NextUi]_vars

\* The page in use: the renderer runs every callback it has requested, and
\* the user keeps selecting the site, opening the Data View tab and clicking
\* every button displayed for the views of that tab.
Renderer ==
    \/ LoadNav
    \/ UpdateSubNavigationTop
    \/ UpdatePlotButtons
    \/ PlotButtonsInserted
    \/ UpdatePlotTypeButtons
    \/ UpdateMain
    \/ ViewButtonInserted
    \/ ResetViewMode

SpecUiInUse ==
    /\ SpecUi
    /\ WF_vars(Renderer)
    /\ SF_vars(SelectSite(Some(RenderSite)))
    /\ SF_vars(ClickNav("data") /\ ~falsy(ui.site))
    /\ \A i \in 1..Len(plot_buttons("data")) : SF_vars(ClickPlot(i) /\ ui.current_tab = "data")

---------------------------------------------------------------------------
(* The historical overlay of the diurnal pattern: an hourly historical     *)
(* file with one row per year, read by create_diurnal_pattern.             *)

MaxYears == 11

\* num_years as create_diurnal_pattern leaves it: the default of
\* calculate_historical_average
DefaultNumYears == 10

\* the frame create_diurnal_pattern plots as the historical trace
diurnal_overlay(hist_file, metric) ==
    calculate_historical_average(hist_file, metric, "hourly", DefaultNumYears)

\* the hourly historical files: the years FirstYear, FirstYear + 1, ... with
\* one value each, at hour 0
OverlayTables ==
    UNION {{[y \in 1..n |-> [year |-> FirstYear + y - 1, month |-> 1, day |-> 1, hour |-> 0,
                              value |-> v[y]]] : v \in [1..n -> HistValues]} : n \in 0..MaxYears}

\* create_diurnal_pattern(site, metric) on a site with an hourly
\* distribution file
DiurnalOverlay ==
    /\ ~havg.called
    /\ havg' = [called |-> TRUE, num_years |-> DefaultNumYears,
                out |-> diurnal_overlay(df.file, df.metric)]
    /\ shown' = [op |-> "diurnal-pattern",
                 out |-> create_diurnal_pattern(Some([columns |-> DistColumns, rows |-> <<DistRow>>]),
                                                df.file, df.metric)]
    /\ UNCHANGED <<fs, call, sitesCache, filesCache, thr, touched, df, data, csvfile, req, ui>>

InitOverlay ==
    /\ fs = << >>
    /\ call = NoCall
    /\ sitesCache = None
    /\ filesCache = << >>
    /\ thr = << >>
    /\ touched = FALSE
    /\ \E m \in {"generation", "price_da"}, rows \in OverlayTables :
            df = [metric |-> m, temporal |-> "hourly",
                  file |-> Some([columns |-> FileColumns(m, "hourly"), rows |-> rows])]
    /\ havg = NoAverage
    /\ data = NoData
    /\ shown = NoComponent
    /\ ui = << >>
    /\ req = << >>
    /\ csvfile = None

NextOverlay == DiurnalOverlay

SpecOverlay == InitOverlay /\ [][NextOverlay]_vars

---------------------------------------------------------------------------
(* Claims about the resolvers (SpecResolve) *)

ResolverOps == {"find_distribution_file", "find_timeseries_file", "find_historical_file"}

CategoryOf(op) ==
    CASE op = "find_distribution_file" -> "distribution"
      [] op = "find_timeseries_file" -> "timeseries"
      [] op = "find_historical_file" -> "historical"

\* the folder the layout gives a metric
LayoutFolder(metric) ==
    CASE metric = "generation" -> "Generation"
      [] metric = "price_da" -> "Price_da"
      [] metric = "price_rt" -> "Price_rt"
      [] metric = "revenue_da" -> "Revenue_da"
      [] metric = "revenue_rt" -> "Revenue_rt"
      [] OTHER -> metric

\* the path the layout gives (category, site, metric, temporal)
LayoutPath(category, site, metric, temporal) ==
    IF category = "historical"
    THEN <<site, LayoutFolder(metric), "historical", DataFileName(site, metric, temporal, category)>>
    ELSE <<site, LayoutFolder(metric), "forecast", category, DataFileName(site, metric, temporal, category)>>

CallPath == LayoutPath(CategoryOf(call.op), call.args[1], call.args[2], call.args[3])

\* C1: every resolver call returns the expected path exactly when that file
\* exists and None otherwise, and never raises, whatever part of the path is
\* missing.
C1_FoundIffExists ==
    call.op \in ResolverOps =>
        /\ ~call.result.raised
        /\ call.result.value = (IF CallPath \in DOMAIN fs THEN Some(CallPath) ELSE None)

\* a distribution lookup answered None while the parent directory of the
\* file is missing too
C1_Witness ==
    /\ call.op = "find_distribution_file"
    /\ call.result.value = None
    /\ Parent(CallPath) \notin DOMAIN fs
    /\ Parent(Parent(CallPath)) \in DOMAIN fs

\* C2: a path a resolver returns has the shape
\* site/folder/forecast/category/file (distribution, timeseries) or
\* site/folder/historical/file, the folder being the table entry of a
\* recognised metric and the raw token of any other metric, and the file name
\* being site_metric_temporal_category.parquet with the raw metric token; an
\* unrecognised metric raises no error.
C2_PathShape ==
    call.op \in ResolverOps =>
        LET category == CategoryOf(call.op)
            site == call.args[1]
            metric == call.args[2]
            temporal == call.args[3]
            v == call.result.value
        IN  /\ metric \notin MetricTokens => ~call.result.raised
            /\ v # None =>
                /\ v[1][1] = site
                /\ v[1][2] = (IF metric \in MetricTokens THEN folder_map[metric] ELSE metric)
                /\ IF category = "historical"
                   THEN Len(v[1]) = 4 /\ v[1][3] = "historical"
                   ELSE Len(v[1]) = 5 /\ v[1][3] = "forecast" /\ v[1][4] = category
                /\ Name(v[1]) = site \o "_" \o metric \o "_" \o temporal \o "_" \o category \o ".parquet"

\* a file found for an unrecognised metric, in the folder named by the raw token
C2_Witness ==
    /\ call.op = "find_timeseries_file"
    /\ call.args[2] \notin MetricTokens
    /\ call.result.value # None


---------------------------------------------------------------------------
(* Claims about the site catalog (SpecCatalog) *)

\* the condition the catalog puts on an entry q of the portfolio directory
Qualifies(q) ==
    /\ fs[q].kind = "dir"
    /\ ~(Len(Name(q)) >= 20 /\ SubSeq(Name(q), 1, 20) = "bootstrap_selections")
    /\ \E d \in {"Generation", "Price_da", "Price_rt", "Revenue_da", "Revenue_rt"} :
            <<Name(q), d>> \in DOMAIN fs

RootEntries == {q \in DOMAIN fs : Len(q) = 1}

\* C3: a call of get_all_sites that scans the portfolio directory returns the
\* name of an entry iff the entry is a directory, its name does not start
\* with bootstrap_selections, and one of the five metric folders exists in it.
C3_SiteIffQualifies ==
    (call.op = "get_all_sites" /\ call.miss) =>
        /\ \A q \in RootEntries : (Name(q) \in Range(call.result.value)) <=> Qualifies(q)
        /\ Range(call.result.value) \subseteq {Name(q) : q \in RootEntries}

\* a scan that lists Beta_LLC for its Revenue_rt folder alone and leaves out a
\* bootstrap_selections directory that holds Generation
C3_Witness ==
    /\ call.op = "get_all_sites"
    /\ call.miss
    /\ call.result.value = <<"Beta_LLC">>
    /\ {q \in DOMAIN fs : Len(q) = 2 /\ q[1] = "Beta_LLC"} = {<<"Beta_LLC", "Revenue_rt">>}
    /\ <<"bootstrap_selections_1", "Generation">> \in DOMAIN fs

\* C4: the sequence get_all_sites returns is strictly ascending (sorted, no
\* duplicates) and no error is raised; a scan of a portfolio directory without
\* a qualifying entry returns the empty sequence and caches it.
C4_SortedNoDuplicates ==
    call.op = "get_all_sites" =>
        LET r == call.result.value
        IN  /\ ~call.result.raised
            /\ \A i, j \in 1..Len(r) : i < j => StrLess(r[i], r[j])
            /\ (call.miss /\ ~\E q \in RootEntries : Qualifies(q)) =>
                    (r = <<>> /\ sitesCache = Some(<<>>))

\* a scan that returned two sites
C4_Witness ==
    /\ call.op = "get_all_sites"
    /\ call.miss
    /\ Len(call.result.value) = 2

---------------------------------------------------------------------------
(* Claims about the two caches (SpecInventory) *)

\* C5: once populated, the site cache and every entry of the file cache keep
\* their value whatever happens to the tree and whichever site is asked for
\* next, and a call answered from a cache returns that value.
C5_CachesNeverChange ==
    [][/\ sitesCache # None => sitesCache' = sitesCache
       /\ \A k \in DOMAIN filesCache : k \in DOMAIN filesCache' /\ filesCache'[k] = filesCache[k]
       /\ (call'.op = "get_all_sites" /\ sitesCache # None) =>
                call'.result.value = sitesCache[1]
       /\ (call'.op = "get_available_files" /\ (call'.args[1] \o "_files") \in DOMAIN filesCache) =>
                call'.result.value = filesCache[call'.args[1] \o "_files"]]_vars

\* a later call for Beta_LLC still returns its file although the files are
\* gone and the listing of alpha has been cached in between
C5_Witness ==
    /\ call.op = "get_available_files"
    /\ call.args = <<"Beta_LLC">>
    /\ ~call.miss
    /\ call.result.value # <<>>
    /\ \A q \in DOMAIN fs : q[1] # "Beta_LLC"
    /\ "alpha_files" \in DOMAIN filesCache
    /\ sitesCache # None


---------------------------------------------------------------------------
(* Claims about concurrent first accesses (SpecRace) *)

\* the names of the qualifying entries of the portfolio directory, ascending
SiteListing ==
    LET names == {Name(q) : q \in {e \in RootEntries : Qualifies(e)}}
    IN  CHOOSE r \in [1..Cardinality(names) -> names] :
            /\ {r[i] : i \in 1..Cardinality(names)} = names
            /\ \A i, j \in 1..Cardinality(names) : i < j => StrLess(r[i], r[j])

\* the entries of the .parquet files in the three sub-paths of the five
\* metric folders of a site
FileEntries(site) ==
    {[metric |-> q[2], type |-> q[Len(q) - 1], file |-> Name(q), path |-> str(q),
      size |-> format_kb(fs[q].size)] :
        q \in {e \in DOMAIN fs :
                /\ fs[e].kind = "file"
                /\ e[1] = site
                /\ Len(e) \in {4, 5}
                /\ e[2] \in {"Generation", "Price_da", "Price_rt", "Revenue_da", "Revenue_rt"}
                /\ SubSeq(e, 3, Len(e) - 1) \in SubPaths
                /\ endswith(Name(e), ".parquet")}}

IsFileListing(site, v) ==
    /\ Range(v) = FileEntries(site)
    /\ Len(v) = Cardinality(FileEntries(site))

\* what a call has returned is the complete listing of the tree
CompleteReturn(r) ==
    IF r.op = "get_all_sites" THEN r.value = SiteListing ELSE IsFileListing(r.site, r.value)

\* while the tree is as it was when the first access began, every value
\* returned and every value cached is the complete listing
RaceComplete ==
    ~touched =>
        /\ \A t \in Threads : thr[t].ret # None => CompleteReturn(thr[t].ret[1])
        /\ sitesCache # None => sitesCache[1] = SiteListing
        /\ \A s \in RaceSites : (s \o "_files") \in DOMAIN filesCache =>
                IsFileListing(s, filesCache[s \o "_files"])

\* a cache changes only in a store, and then holds what the storing thread
\* has collected, whatever it held before
LastWriteWins ==
    /\ sitesCache' # sitesCache =>
            \E t \in Threads :
                /\ thr[t].pc = "gas_90" /\ thr'[t].pc = "gas_97"
                /\ Range(sitesCache'[1]) = Range(thr[t].acc)
                /\ Len(sitesCache'[1]) = Len(thr[t].acc)
    /\ filesCache' # filesCache =>
            \E t \in Threads :
                /\ thr[t].pc = "gaf_121" /\ thr'[t].pc = "gaf_138"
                /\ filesCache' = [k \in DOMAIN filesCache \cup {thr[t].site \o "_files"} |->
                                    IF k = thr[t].site \o "_files" THEN thr[t].acc ELSE filesCache[k]]
    /\ \A t \in Threads :
            /\ (thr[t].pc = "gas_90" /\ thr'[t].pc = "gas_97") => Range(sitesCache'[1]) = Range(thr[t].acc)
            /\ (thr[t].pc = "gaf_121" /\ thr'[t].pc = "gaf_138") =>
                    filesCache'[thr[t].site \o "_files"] = thr[t].acc

\* C6: in every interleaving of the two threads, a cache is only ever
\* replaced by the complete list a thread has collected (the last store
\* wins), and while the tree is unchanged every caller, concurrent or later,
\* returns the complete listing and the caches hold it.
C6_RaceBenign == [][RaceComplete' /\ LastWriteWins]_vars

\* t1 has returned a list of two sites while t2, which found the cache empty
\* before t1 stored, is about to store its own list over it
C6_Witness ==
    /\ ~touched
    /\ thr["t1"].ret # None
    /\ thr["t1"].ret[1].op = "get_all_sites"
    /\ Len(thr["t1"].ret[1].value) = 2
    /\ thr["t2"].pc = "gas_90"
    /\ thr["t2"].items = <<>>
    /\ sitesCache # None


---------------------------------------------------------------------------
(* Claims about the historical rolling average (SpecHist) *)

TableRows == IF df.file = None THEN <<>> ELSE df.file[1].rows

DistinctYears == {TableRows[i].year : i \in 1..Len(TableRows)}

\* the k largest of the distinct years present
LargestYears(k) == {y \in DistinctYears : Cardinality({z \in DistinctYears : z > y}) < k}

RowsOfYears(Y) == SelectSeq(TableRows, LAMBDA r : r.year \in Y)

Averaged == havg.called /\ havg.out.kind = "frame"

\* C7: for every num_years, 0 included, the rows averaged are exactly the
\* rows whose year is among the min(num_years, years present) largest
\* distinct years of the table.
C7_RowsOfLastYears ==
    Averaged =>
        havg.out.df_recent = RowsOfYears(LargestYears(Min(havg.num_years, Cardinality(DistinctYears))))

\* C8: with num_years greater than the number of distinct years present the
\* call returns a frame, logs no error, and averages the rows of all years.
C8_MoreYearsThanPresent ==
    (havg.called /\ df.file # None /\ havg.num_years > Cardinality(DistinctYears)) =>
        /\ havg.out.kind = "frame"
        /\ havg.out.log = ""
        /\ havg.out.df_recent = TableRows
        /\ TableRows # <<>> => havg.out.rows # <<>>

\* ten years asked of a table that holds two
C8_Witness ==
    /\ Averaged
    /\ havg.num_years = 10
    /\ Cardinality(DistinctYears) = 2
    /\ havg.out.df_recent = TableRows

\* C9: for the monthly resolution the frame has exactly one row per month
\* present among the rows of the selected years, and its historical_avg is
\* the sum of their values divided by their number.
C9_MonthlyMeans ==
    (Averaged /\ df.temporal = "monthly") =>
        LET sel == havg.out.df_recent
            out == havg.out.rows
            months == {sel[i].month : i \in 1..Len(sel)}
            of(m) == {i \in 1..Len(sel) : sel[i].month = m}
            Sum[I \in SUBSET (1..Len(sel))] ==
                IF I = {} THEN 0
                ELSE LET i == CHOOSE x \in I : TRUE IN sel[i].value + Sum[I \ {i}]
        IN  /\ \A m \in months : Cardinality({n \in 1..Len(out) : out[n].month = m}) = 1
            /\ \A n \in 1..Len(out) :
                /\ out[n].month \in months
                /\ out[n].historical_avg[2] > 0
                /\ out[n].historical_avg[1] * Cardinality(of(out[n].month))
                        = Sum[of(out[n].month)] * out[n].historical_avg[2]

\* the rows {2020, month 1, 10} and {2021, month 1, 20}, ten years asked:
\* month 1 -> 15
C9_Witness ==
    /\ Averaged
    /\ df.temporal = "monthly"
    /\ havg.num_years = 10
    /\ Len(TableRows) = 2
    /\ [year |-> 2020, month |-> 1, day |-> 1, hour |-> 0, value |-> 10] \in Range(TableRows)
    /\ [year |-> 2021, month |-> 1, day |-> 1, hour |-> 0, value |-> 20] \in Range(TableRows)
    /\ havg.out.rows = <<[month |-> 1, historical_avg |-> <<15, 1>>]>>

\* the grouping key by resolution and metric
ClaimedKey(metric, temporal) ==
    CASE temporal = "monthly" -> <<"month">>
      [] temporal = "daily" -> <<"month", "day">>
      [] temporal = "hourly" /\ metric \in {"generation", "price_da", "price_rt"} -> <<"hour">>
      [] temporal = "hourly" /\ metric \in {"revenue_da", "revenue_rt"} -> <<"month", "day", "hour">>

\* C10: the frame has the key columns of its resolution and metric followed
\* by historical_avg and nothing else, and one row for every combination of
\* key values present among the averaged rows.
C10_GroupingKey ==
    Averaged =>
        LET key == ClaimedKey(df.metric, df.temporal)
            sel == havg.out.df_recent
            out == havg.out.rows
            proj(r) == [i \in 1..Len(key) |-> r[key[i]]]
        IN  /\ havg.out.columns = key \o <<"historical_avg">>
            /\ \A n \in 1..Len(out) : DOMAIN out[n] = Range(key) \cup {"historical_avg"}
            /\ {proj(out[n]) : n \in 1..Len(out)} = {proj(sel[i]) : i \in 1..Len(sel)}
            /\ Len(out) = Cardinality({proj(sel[i]) : i \in 1..Len(sel)})

\* hourly revenue: two rows of the same hour on different days stay apart
C10_Witness ==
    /\ Averaged
    /\ df.temporal = "hourly"
    /\ df.metric = "revenue_rt"
    /\ Len(havg.out.rows) = 2
    /\ havg.out.rows[1].hour = havg.out.rows[2].hour
    /\ havg.out.columns = <<"month", "day", "hour", "historical_avg">>

---------------------------------------------------------------------------
(* Claims about the plot functions on defective tables (SpecSchema) *)

\* the table an operation reads
TableRead(op) ==
    CASE op \in {"daily-forecast", "monthly-forecast", "diurnal-pattern"} -> data.files.dist
      [] op \in {"daily-historical", "monthly-historical", "historical-average"} -> data.files.hist
      [] op \in {"ghi-hour", "ghi-temp"} -> data.files.obs
      [] OTHER -> None

\* the columns an operation requires of its table
RequiredColumns(op) ==
    CASE op = "daily-forecast" -> {"p10", "p90", "mean"}
      [] op = "monthly-forecast" -> {"p10", "p90", "mean"}
      [] op = "diurnal-pattern" -> {"hour", "mean", "p5", "p95"}
      [] op = "daily-historical" -> {FileValueColumn(data.metric, "daily"), "year", "month", "day"}
      [] op = "monthly-historical" -> {FileValueColumn(data.metric, "monthly"), "year", "month"}
      [] op = "historical-average" ->
            {FileValueColumn(data.metric, data.temporal), "year"}
                \cup Range(group_columns(data.metric, data.temporal)[1])
      [] op \in {"ghi-hour", "ghi-temp"} -> {"year", "generation_mw", "shortwave_radiation"}
      [] OTHER -> {}

MissingColumns(op) ==
    IF TableRead(op) = None THEN {} ELSE RequiredColumns(op) \ TableRead(op)[1].columns

\* the text the operation showed or printed
TextShown ==
    IF shown.op = "historical-average" THEN shown.out.log
    ELSE IF shown.out.kind = "alert" THEN shown.out.text ELSE ""

\* the operation answered with a warning: a warning alert, or no frame and a
\* line that starts with Warning
IsWarning ==
    IF shown.op = "historical-average"
    THEN shown.out.kind = "none" /\ startswith(shown.out.log, "Warning")
    ELSE shown.out.kind = "alert" /\ shown.out.color = "warning"

\* C11: an operation whose table lacks a required column answers with a
\* warning that names a missing column, never with the generic error of a
\* failed lookup.
C11_MissingColumnWarned ==
    (shown.op # "none" /\ MissingColumns(shown.op) # {}) =>
        /\ IsWarning
        /\ \E c \in MissingColumns(shown.op) : contains(TextShown, c)

\* C20: an operation whose table exists and has no rows answers with a
\* failure (an alert, or no frame from the historical average), never with a
\* plot or a table of averages.
C20_EmptyTableRefused ==
    (shown.op # "none" /\ TableRead(shown.op) # None /\ TableRead(shown.op)[1].rows = <<>>) =>
        IF shown.op = "historical-average"
        THEN shown.out.kind = "none"
        ELSE shown.out.kind = "alert"

---------------------------------------------------------------------------
(* Claims about the plots of a timeseries file (SpecSeries) *)

SeriesRead == IF data.files.ts = None THEN <<>> ELSE data.files.ts[1].series

\* the column is named by a year in 1980..2024 or prefixed path_
Eligible(c) == c.name \in {ToString(y) : y \in 1980..2024} \/ startswith(c.name, "path_")

NonMissing(c) == Cardinality({i \in 1..Len(c.values) : c.values[i] # None})

\* the positions of the eligible columns with exactly 12 non-missing values
CompleteColumns == {k \in 1..Len(SeriesRead) : Eligible(SeriesRead[k]) /\ NonMissing(SeriesRead[k]) = 12}

\* C12: the sample of annual totals holds exactly one sum per eligible
\* column with exactly 12 non-missing values and nothing else, and the n a
\* plot reports is the number of those columns.
C12_AnnualSample ==
    (shown.op = "annual-distribution" /\ data.files.ts # None) =>
        LET totals == annual_values(data.files.ts[1])
            sumOf(k) == SumOf(dropna(SeriesRead[k].values))
        IN  /\ Len(totals) = Cardinality(CompleteColumns)
            /\ \A k \in CompleteColumns :
                Cardinality({i \in 1..Len(totals) : totals[i] = sumOf(k)})
                    = Cardinality({j \in CompleteColumns : sumOf(j) = sumOf(k)})
            /\ shown.out.kind = "graph" => shown.out.n = Cardinality(CompleteColumns)

\* a plot of n = 2 from three columns with 12 values each, the third
\* named 2025; and a path column of 13 rows, one of them missing, counted
C12_Witness ==
    /\ shown.op = "annual-distribution"
    /\ shown.out.kind = "graph"
    /\ shown.out.n = 2
    /\ Len(SeriesRead) = 3
    /\ \E k \in 1..3 : SeriesRead[k].name = "2025" /\ NonMissing(SeriesRead[k]) = 12
    /\ \E k \in CompleteColumns : SeriesRead[k].name = "path_1" /\ Len(SeriesRead[k].values) = 13

\* C13: the annual distribution shows a density curve with its statistics
\* whenever one complete column at least exists, a single one and several
\* of equal totals included, and answers insufficient data only when there
\* is none.
C13_CurveWheneverComplete ==
    (shown.op = "annual-distribution" /\ data.files.ts # None /\ data.metric = "generation") =>
        IF CompleteColumns = {}
        THEN shown.out = Alert("Insufficient data for annual distribution", "warning")
        ELSE shown.out.kind = "graph"

\* the number of non-missing entries equal to v in the eligible columns
PooledCount(v) ==
    LET n[k \in 0..Len(SeriesRead)] ==
            IF k = 0 THEN 0
            ELSE n[k - 1] + (IF Eligible(SeriesRead[k])
                             THEN Cardinality({i \in 1..Len(SeriesRead[k].values) :
                                                SeriesRead[k].values[i] = Some(v)})
                             ELSE 0)
    IN  n[Len(SeriesRead)]

PooledValues ==
    UNION {{c.values[i][1] : i \in {j \in 1..Len(c.values) : c.values[j] # None}} :
            c \in {SeriesRead[k] : k \in {j \in 1..Len(SeriesRead) : Eligible(SeriesRead[j])}}}

\* a / b <= c / d for fractions with positive denominators
FracLeq(p, q) == p[1] * q[2] <= q[1] * p[2]

\* C14: the curve plots the pooled non-missing entries of the year and path
\* columns, each as often as it occurs, in non-increasing order; the i-th of
\* n values (from 0) is paired with 100 * i / (n - 1), with 0 when n = 1; the
\* mean is the arithmetic mean of the pool.
C14_DurationCurve ==
    (shown.op = "duration-curve" /\ shown.out.kind = "graph") =>
        LET x == shown.out.x
            y == shown.out.y
            n == Len(y)
            acc[k \in 0..n] == IF k = 0 THEN 0 ELSE acc[k - 1] + y[k]
        IN  /\ Range(y) = PooledValues
            /\ \A v \in PooledValues : Cardinality({i \in 1..n : y[i] = v}) = PooledCount(v)
            /\ \A i \in 1..(n - 1) : y[i] >= y[i + 1]
            /\ Len(x) = n
            /\ \A i \in 1..n :
                /\ x[i][2] > 0
                /\ IF n = 1 THEN x[i][1] = 0 ELSE x[i][1] * (n - 1) = 100 * (i - 1) * x[i][2]
            /\ shown.out.mean[2] > 0
            /\ shown.out.mean[1] * n = acc[n] * shown.out.mean[2]

\* the pool 10, 20, 30 of a year column and 40, 50 of a path column
C14_Witness ==
    /\ shown.op = "duration-curve"
    /\ shown.out.kind = "graph"
    /\ Len(SeriesRead) = 2
    /\ SeriesRead[1].values = <<Some(10), Some(20), Some(30)>>
    /\ SeriesRead[2].values = <<Some(40), Some(50), None>>
    /\ shown.out.y = <<50, 40, 30, 20, 10>>
    /\ shown.out.x = <<<<0, 1>>, <<25, 1>>, <<50, 1>>, <<75, 1>>, <<100, 1>>>>
    /\ shown.out.mean = <<30, 1>>

\* C15: the value labelled P10 is the 90th percentile of the pooled values,
\* P50 the 50th and P90 the 10th, so that P10 >= P50 >= P90.
C15_LabelsInverted ==
    (shown.op = "duration-curve" /\ shown.out.kind = "graph") =>
        LET marks == shown.out.marks
            pool == shown.out.y
        IN  /\ marks.p10 = np_percentile(pool, 90)
            /\ marks.p50 = np_percentile(pool, 50)
            /\ marks.p90 = np_percentile(pool, 10)
            /\ FracLeq(marks.p90, marks.p50)
            /\ FracLeq(marks.p50, marks.p10)
            /\ FracLeq(marks.p10, <<pool[1], 1>>)
            /\ FracLeq(<<pool[Len(pool)], 1>>, marks.p90)

\* the pool 10..50: P10 = 46, P50 = 30, P90 = 14
C15_Witness ==
    /\ shown.op = "duration-curve"
    /\ shown.out.kind = "graph"
    /\ shown.out.y = <<50, 40, 30, 20, 10>>
    /\ shown.out.marks = [p10 |-> <<46, 1>>, p50 |-> <<30, 1>>, p90 |-> <<14, 1>>]

---------------------------------------------------------------------------
(* Claims about the scatter plots (SpecScatter) *)

ObsRead == data.files.obs[1].rows

\* the number of rows of year y
RowsOfYear(y) ==
    LET n[k \in 0..Len(ObsRead)] ==
            IF k = 0 THEN 0 ELSE n[k - 1] + (IF ObsRead[k].year = y THEN ObsRead[k].count ELSE 0)
    IN  n[Len(ObsRead)]

\* the years with at least 8760 observed hours
CompleteYears == {y \in {ObsRead[k].year : k \in 1..Len(ObsRead)} : RowsOfYear(y) >= 8760}

\* the most recent 10 (hour variant) or 5 (temperature variant) of them
YearsUsed ==
    LET most == IF shown.op = "ghi-hour" THEN 10 ELSE 5
        complete == CompleteYears
    IN  {y \in complete : Cardinality({z \in complete : z > y}) < most}

\* the rows of those years with generation above 0.1 MW and irradiance
FilteredRows ==
    LET used == YearsUsed
    IN  SelectSeq(ObsRead, LAMBDA r : r.year \in used /\ r.generation_mw > 1 /\ r.shortwave_radiation > 0)

\* the number of rows of a list that are alike r
Alike(rows, r) ==
    CountRows(SelectSeq(rows, LAMBDA b : [b EXCEPT !.count = 0] = [r EXCEPT !.count = 0]))

ScatterShown == shown.op \in {"ghi-hour", "ghi-temp"} /\ shown.out.kind = "graph"

\* what the plot function of shown.op returns at entropy e
ScatterAt(e) ==
    IF shown.op = "ghi-hour" THEN create_ghi_vs_generation_hour(data.files.obs, e)
    ELSE create_ghi_vs_generation_temp(data.files.obs, e)

\* C16: the rows a scatter plot shows are among the filtered rows and
\* number min(filtered, 10000), so between 100 and 10000; exactly 10000
\* filtered rows are shown as they are; and the same rows are shown on every
\* call.
C16_SampleBounded ==
    ScatterShown =>
        LET rows == shown.out.rows
            filtered == FilteredRows
        IN  /\ \A k \in 1..Len(rows) : Alike(rows, rows[k]) <= Alike(filtered, rows[k])
            /\ CountRows(rows) = Min(CountRows(filtered), 10000)
            /\ CountRows(rows) >= 100 /\ CountRows(rows) <= 10000
            /\ shown.out.traces[1].n = CountRows(rows)
            /\ CountRows(filtered) = 10000 => rows = filtered
            /\ \A e \in Entropy : ScatterAt(e) = shown.out

\* 10001 filtered rows, 10000 shown
C16_Witness ==
    /\ ScatterShown
    /\ CountRows(FilteredRows) = 10001
    /\ CountRows(shown.out.rows) = 10000

\* C17: a scatter plot uses the rows of complete years only, of the most
\* recent 10 (hour variant) or 5 (temperature variant) of them, and of those
\* the rows with generation above 0.1 MW and irradiance above 0; without a
\* complete year the answer is insufficient data before any row is filtered.
C17_CompleteYearsOnly ==
    /\ ScatterShown =>
        LET used == YearsUsed
        IN  /\ Range(shown.out.years) = used
            /\ shown.out.filtered = FilteredRows
            /\ \A k \in 1..Len(shown.out.rows) :
                /\ shown.out.rows[k].year \in used
                /\ shown.out.rows[k].generation_mw > 1
                /\ shown.out.rows[k].shortwave_radiation > 0
    /\ (shown.op \in {"ghi-hour", "ghi-temp"} /\ CompleteYears = {}) =>
            shown.out = Alert("No complete years of data available", "warning")

\* eleven complete years: the hour variant shows the last ten
C17_Witness ==
    /\ ScatterShown
    /\ shown.op = "ghi-hour"
    /\ Cardinality(CompleteYears) = 11
    /\ Cardinality(YearsUsed) = 10
    /\ Len(shown.out.years) = 10


---------------------------------------------------------------------------
(* Claims about the construction of the dashboard (SpecRoot) *)

RootCall == call.op = "__init__"

\* the portfolio directory inside p when there is one, the parquet one first
NamedSubfolder(p) ==
    IF Join(p, "Renewable Portfolio LLC_parquet") \in DOMAIN fs
    THEN Join(p, "Renewable Portfolio LLC_parquet")
    ELSE IF Join(p, "Renewable Portfolio LLC") \in DOMAIN fs
         THEN Join(p, "Renewable Portfolio LLC")
         ELSE p

IsPortfolioName(p) ==
    p # <<>> /\ p[Len(p)] \in {"Renewable Portfolio LLC", "Renewable Portfolio LLC_parquet"}

\* C18 as stated: without an override the root is the parquet directory of the
\* working directory, else its 'Renewable Portfolio LLC', else the working
\* directory; with an override the root is the portfolio directory inside the
\* override when there is one (the parquet one first) and the override
\* otherwise, whatever the override is named.
C18_SubfolderOfEveryOverride ==
    RootCall =>
        LET cwd == call.args[1]
            base_path == call.args[2]
            root == call.result[1]
        IN IF base_path = None
           THEN root = NamedSubfolder(cwd)
           ELSE root = NamedSubfolder(base_path[1])

\* C18 amended: as above, except that an override itself named
\* 'Renewable Portfolio LLC' or 'Renewable Portfolio LLC_parquet' is the root
\* whatever it contains.
C18_RootDiscovery ==
    RootCall =>
        LET cwd == call.args[1]
            base_path == call.args[2]
            root == call.result[1]
        IN IF base_path = None
           THEN root = NamedSubfolder(cwd)
           ELSE IF IsPortfolioName(base_path[1])
                THEN root = base_path[1]
                ELSE root = NamedSubfolder(base_path[1])

\* an override named as a portfolio directory, holding a parquet directory,
\* was kept as the root
C18_Witness ==
    /\ RootCall
    /\ call.args[2] # None
    /\ IsPortfolioName(call.args[2][1])
    /\ Join(call.args[2][1], "Renewable Portfolio LLC_parquet") \in DOMAIN fs
    /\ call.result = call.args[2]


---------------------------------------------------------------------------
(* Claims about the main content callback (SpecRender) *)

Rendered == call.op = "update_main_content"

\* C19: whatever the tab, plot type, site and view mode, and whatever the tree
\* holds, update_main_content returns a component: no exception leaves it,
\* the data tab included.
C19_NoExceptionEscapes ==
    Rendered =>
        /\ ~call.result.raised
        /\ call.result.value.kind \in {"alert", "card", "file-explorer", "data-summary"}


---------------------------------------------------------------------------
(* Claims about the suggestions file (SpecSuggest) *)

Quiet == req.handling = << >>

CountKind(lines, kind) == Cardinality({i \in 1..Len(lines) : lines[i].kind = kind})

\* C21: once every submission begun has been handled, the file holds one
\* header, as its first row, and one data row per submission.
C21_OneHeaderThenRows ==
    (Quiet /\ req.done > 0) =>
        /\ csvfile # None
        /\ csvfile[1][1].kind = "header"
        /\ CountKind(csvfile[1], "header") = 1
        /\ CountKind(csvfile[1], "row") = req.done


---------------------------------------------------------------------------
(* Claims about the listing of a site's files (SpecInventory) *)

\* the sub-paths of a metric folder, segment by segment
SubPathSegments == {<<"forecast", "distribution">>, <<"forecast", "timeseries">>, <<"historical">>}

\* the .parquet entries directly inside a sub-path of a metric folder of site
ListedFiles(site) ==
    {q \in DOMAIN fs :
        /\ q[1] = site
        /\ Len(q) >= 4
        /\ q[2] \in {"Generation", "Price_da", "Price_rt", "Revenue_da", "Revenue_rt"}
        /\ SubSeq(q, 3, Len(q) - 1) \in SubPathSegments
        /\ Len(q[Len(q)]) >= 8
        /\ SubSeq(q[Len(q)], Len(q[Len(q)]) - 7, Len(q[Len(q)])) = ".parquet"}

\* the entry of the listing for file q
Lists(e, q) ==
    /\ e.file = q[Len(q)]
    /\ e.metric = q[2]
    /\ e.type = q[Len(q) - 1]
    /\ e.path = str(q)

\* C22: a call of get_available_files that reads the tree returns one entry
\* for every .parquet file directly inside the three sub-paths of the metric
\* folders of the site, whatever the file is called, and nothing else; the
\* entry's metric is the folder and its type the last segment of the sub-path.
C22_InventoryIsListing ==
    (call.op = "get_available_files" /\ call.miss /\ ~call.result.raised) =>
        LET files_found == call.result.value
            listed == ListedFiles(call.args[1])
        IN  /\ Len(files_found) = Cardinality(listed)
            /\ \A q \in listed :
                    Cardinality({i \in 1..Len(files_found) : Lists(files_found[i], q)}) = 1
            /\ \A i \in 1..Len(files_found) : \E q \in listed : Lists(files_found[i], q)

\* the file off the naming convention is listed, the csv file beside it is not
C22_Witness ==
    /\ call.op = "get_available_files"
    /\ call.miss
    /\ call.args = <<"Beta_LLC">>
    /\ Len(call.result.value) = 1
    /\ call.result.value[1].file = "extra.parquet"
    /\ call.result.value[1].metric = "Generation"
    /\ call.result.value[1].type = "historical"
    /\ <<"Beta_LLC", "Generation", "historical", "notes.csv">> \in DOMAIN fs


---------------------------------------------------------------------------
(* Claims about the display name of a site (SpecNames) *)

Cleaned == call.op = "clean_site_name" /\ ~call.miss

\* a str in title case: a letter is a capital exactly when no letter precedes it
InTitleCase(s) ==
    \A i \in 1..Len(s) :
        LET after_letter == i > 1 /\ (s[i - 1] \in 65..90 \/ s[i - 1] \in 97..122)
        IN  /\ s[i] \in 65..90 => ~after_letter
            /\ s[i] \in 97..122 => after_letter

IsAscii(s) == \A i \in 1..Len(s) : s[i] < 128

\* C23: the display name has no underscore; of a name in ASCII it is in title
\* case and shorter by the _LLC at its end; Foo_Bar_LLC gives Foo Bar and
\* Alpha_Power_Site gives Alpha Site.
C23_DisplayName ==
    Cleaned =>
        LET x == call.args[1]
            y == call.result.value
        IN  /\ \A i \in 1..Len(y) : y[i] # 95
            /\ IsAscii(x) => InTitleCase(y)
            /\ IsAscii(x) => Len(y) <= Len(x)
            /\ IsAscii(x) /\ Len(x) >= 4 /\ SubSeq(x, Len(x) - 3, Len(x)) = <<95, 76, 76, 67>>
                    => Len(y) <= Len(x) - 4
            /\ x = Encode("Foo_Bar_LLC") => y = Encode("Foo Bar")
            /\ x = Encode("Alpha_Power_Site") => y = Encode("Alpha Site")

C23_Witness ==
    /\ Cleaned
    /\ call.args[1] = Encode("Alpha_Power_Site")
    /\ call.result.value = Encode("Alpha Site")

---------------------------------------------------------------------------
(* Claims about the page (SpecUi) *)

\* the values of the plot type buttons displayed filled
Filled(buttons) == {buttons[i].index : i \in {j \in 1..Len(buttons) : ~buttons[j].outline}}

\* this step is a run of the callback
Runs(cb) == ui' # ui /\ ui'.last.cb = cb

\* C25 as stated: every run of update_plot_buttons on the generation,
\* price, revenue or data tab sets the plot type to monthly-forecast and
\* leaves Monthly Forecast as the only filled button; on the validation and
\* portfolio tabs it leaves the plot type as it was.
C25_MonthlyForecastFilled ==
    [][Runs("update_plot_buttons") =>
        /\ ui.current_tab \in {"generation", "price", "revenue", "data"} =>
                /\ ui'.current_plot_type = "monthly-forecast"
                /\ Filled(ui'.plot_buttons) = {"monthly-forecast"}
        /\ ui.current_tab \in {"validation", "portfolio"} =>
                ui'.current_plot_type = ui.current_plot_type]_vars

\* C25: every run of update_plot_buttons on the generation, price or revenue
\* tab sets the plot type to monthly-forecast and renders the buttons of the
\* tab with Monthly Forecast as the only filled one; on the data tab it sets
\* the plot type to monthly-forecast and renders no button at all; on the
\* validation and portfolio tabs it renders no button and leaves the plot
\* type as it was.
C25_ResetToMonthlyForecast ==
    [][Runs("update_plot_buttons") =>
        /\ ui.current_tab \in {"generation", "price", "revenue"} =>
                /\ ui'.current_plot_type = "monthly-forecast"
                /\ [i \in 1..Len(ui'.plot_buttons) |-> ui'.plot_buttons[i].index]
                        = plot_buttons(ui.current_tab)
                /\ Filled(ui'.plot_buttons) = {"monthly-forecast"}
        /\ ui.current_tab = "data" =>
                ui'.current_plot_type = "monthly-forecast" /\ ui'.plot_buttons = << >>
        /\ ui.current_tab \in {"validation", "portfolio"} =>
                ui'.current_plot_type = ui.current_plot_type /\ ui'.plot_buttons = << >>]_vars

\* update_plot_buttons has just run for the data tab after a click on the
\* Data View card
C25_Witness ==
    /\ ui.last = Ran("update_plot_buttons", None, "tab")
    /\ ui.current_tab = "data"
    /\ ui.current_plot_type = "monthly-forecast"
    /\ ui.plot_buttons = << >>


RecognisedMetrics == {"generation", "price_da", "price_rt", "revenue_da", "revenue_rt"}

\* the functions update_main_content hands a metric to
MetricPlots ==
    {"create_daily_forecast", "create_daily_historical", "create_monthly_forecast",
     "create_monthly_historical", "create_diurnal_pattern", "create_annual_distribution",
     "create_duration_curve"}

\* C28: the current tab is one of the six tabs; the metric handed to a plot
\* function is one of the five recognised metrics; on a settled page the
\* plot type of the generation, price and revenue tabs is one of the buttons
\* offered on that tab; the duration curve is only requested with a price
\* metric, the annual distribution never with a price metric, the diurnal
\* pattern never with a revenue metric, and the two GHI plots are displayed
\* on the generation tab only.
C28_ValidRequests ==
    /\ ui.current_tab \in Tabs
    /\ ui.main.fn \in MetricPlots => ui.main.metric \in RecognisedMetrics
    /\ Settled /\ ui.current_tab \in {"generation", "price", "revenue"} =>
            ui.current_plot_type \in Range(plot_buttons(ui.current_tab))
    /\ ui.main.fn = "create_duration_curve" => ui.main.metric \in {"price_da", "price_rt"}
    /\ ui.main.fn = "create_annual_distribution" => ui.main.metric \notin {"price_da", "price_rt"}
    /\ ui.main.fn = "create_diurnal_pattern" => ui.main.metric \notin {"revenue_da", "revenue_rt"}
    /\ Settled /\ ui.main.fn \in {"create_ghi_vs_generation_hour", "create_ghi_vs_generation_temp"} =>
            ui.current_tab = "generation"

\* the duration curve of the real-time price is displayed
C28_Witness ==
    /\ Settled
    /\ ui.current_tab = "price"
    /\ ui.price_type = "rt"
    /\ ui.current_plot_type = "duration-curve"
    /\ ui.main.fn = "create_duration_curve"
    /\ ui.main.metric = "price_rt"


\* the button of the displayed sub-navigation that is filled is the one of
\* the stored type, and it is the only one
FilledMatches(type) ==
    /\ ~ui.sub_navigation.da_outline <=> type = "da"
    /\ ~ui.sub_navigation.rt_outline <=> type = "rt"
    /\ ui.sub_navigation.da_outline # ui.sub_navigation.rt_outline

Shows(fn) == ui.current_tab = "data" /\ ui.main.fn = fn

\* C30: on the data tab each of the three views, File Explorer, Data Summary
\* and Download Center, comes to be displayed for a user who keeps using the
\* page.
C30_EveryDataViewShown ==
    /\ <>Shows("create_file_explorer")
    /\ <>Shows("create_data_summary")
    /\ <>Shows("create_download_center")


---------------------------------------------------------------------------
(* Claims about the historical overlay of the diurnal pattern (SpecOverlay) *)

\* the number of years the label of the trace names
LabelYears == 5

\* the rows of the most recent n years of a table
MostRecent(rows, n) ==
    LET years == SortedInts({rows[i].year : i \in 1..Len(rows)})
        kept == IF Len(years) < n THEN years ELSE SliceFrom(years, 0 - n)
    IN  SelectSeq(rows, LAMBDA r : r.year \in Range(kept))

\* C27: the trace labelled '5-Year Historical Avg' of the diurnal pattern
\* plots, per hour, the average over the 5 most recent years of the hourly
\* historical file.
C27_FiveYearAverage ==
    havg.called /\ df.file[1].rows # << >> =>
        /\ havg.out.kind = "frame"
        /\ havg.out.rows = groupby_mean(MostRecent(df.file[1].rows, LabelYears), <<"hour">>)
        /\ \E i \in 1..Len(shown.out.traces) :
                shown.out.traces[i] = Trace("5-Year Historical Avg", Len(havg.out.rows))

\* what the trace does plot: the average over the 10 most recent years
TenYearAverage ==
    havg.called /\ df.file[1].rows # << >> =>
        /\ havg.out.kind = "frame"
        /\ havg.out.rows = groupby_mean(MostRecent(df.file[1].rows, DefaultNumYears), <<"hour">>)

=============================================================================
